---- MODULE Spec2Model ----
(***************************************************************************)
(* A model of the resume parser: the HTTP handlers of                      *)
(* src/api/routes/resumes.py over the in-memory record store, the parse    *)
(* pipeline of src/services/parser_service.py, the structurer of           *)
(* src/services/ai_service.py and the extractors of src/utils.             *)
(*                                                                         *)
(* Python strings are sequences of one-character strings, so that strip,   *)
(* split, lower and the regular expressions are computed, not assumed.     *)
(* Python values whose type the code tests are tagged records [t, v].      *)
(***************************************************************************)
EXTENDS Integers, Sequences, FiniteSets, TLC

VARIABLES
    resumes_db,   \* resumes.py:27  the record store, identifier -> record
    origin,       \* history: identifier -> number of the request that stored it
    usedIds,      \* identifiers uuid4 has handed out so far
    deleted,      \* history: identifiers whose record a delete removed
    resp,         \* the response of the last request handled
    calls,        \* the calls the last handler made, in order
    lastReq,      \* the request the last handler served
    OCR_AVAILABLE, \* pdf_extractor.py:13-18  whether the OCR libraries import
    pdfIn,        \* input of the PDF extractor under SpecPdf
    pdfOut,       \* its outcome
    arg,          \* argument of the function called under SpecPost, SpecExp, SpecEnh
    ret,          \* what the call came to
    tasks,        \* the handler coroutines of the event loop, under SpecLoop
    running       \* the task that holds the event loop's thread, 0 when it is free

vars == <<resumes_db, origin, usedIds, deleted, resp, calls, lastReq, OCR_AVAILABLE,
          pdfIn, pdfOut, arg, ret, tasks, running>>

-----------------------------------------------------------------------------
(* Bounds *)

\* how many identifiers uuid4 can hand out in one behaviour
NumIds == 2

Ids == 1..NumIds

-----------------------------------------------------------------------------
(* Characters and strings *)

UpperLetters == <<"A","B","C","D","E","F","G","H","I","J","K","L","M",
                  "N","O","P","Q","R","S","T","U","V","W","X","Y","Z">>

LowerLetters == <<"a","b","c","d","e","f","g","h","i","j","k","l","m",
                  "n","o","p","q","r","s","t","u","v","w","x","y","z">>

Digits == {"0","1","2","3","4","5","6","7","8","9"}

Range(q) == {q[i] : i \in 1..Len(q)}

IsUpper(c) == \E i \in 1..26 : UpperLetters[i] = c

IsLetter(c) == IsUpper(c) \/ \E i \in 1..26 : LowerLetters[i] = c

\* \s of the re module, as far as the modelled texts go
IsSpace(c) == c \in {" ", "\n", "\t"}

\* \w of the re module
IsWord(c) == IsLetter(c) \/ c \in Digits \/ c = "_"

\* str.lower on one character
LowerChar(c) ==
    IF IsUpper(c)
    THEN LowerLetters[CHOOSE i \in 1..26 : UpperLetters[i] = c]
    ELSE c

\* str.lower
Lower(s) == [i \in 1..Len(s) |-> LowerChar(s[i])]

\* s[i:j] of Python with 1-based inclusive bounds; empty when j < i
Slice(s, i, j) == IF j < i THEN <<>> ELSE SubSeq(s, i, j)

Rep(c, n) == [i \in 1..n |-> c]

\* min(S) and max(S) of a non-empty set of integers
MinOf(S) == CHOOSE x \in S : \A y \in S : x <= y

MaxOf(S) == CHOOSE x \in S : \A y \in S : y <= x

\* str.strip(): drop the whitespace at both ends
Strip(s) ==
    LET Between(keep) ==
            IF keep = {} THEN <<>> ELSE SubSeq(s, MinOf(keep), MaxOf(keep))
    IN Between({i \in 1..Len(s) : ~IsSpace(s[i])})

\* position of the last occurrence of character c in s, 0 when absent (rfind)
RFind(s, c) ==
    LET Last(at) == IF at = {} THEN 0 ELSE MaxOf(at)
    IN Last({i \in 1..Len(s) : s[i] = c})

\* sep.join(parts)
RECURSIVE Join(_, _)
Join(parts, sep) ==
    IF Len(parts) = 0 THEN <<>>
    ELSE IF Len(parts) = 1 THEN parts[1]
    ELSE parts[1] \o sep \o Join(Tail(parts), sep)

\* length of the longest run of characters satisfying Cls that starts at i
Run(s, i, Cls(_)) ==
    IF i > Len(s) THEN 0
    ELSE (CHOOSE j \in i..(Len(s) + 1) :
            /\ j > Len(s) \/ ~Cls(s[j])
            /\ \A m \in i..(j - 1) : Cls(s[m])) - i

HasAt(s, i, lit) ==
    /\ i >= 1
    /\ i + Len(lit) - 1 <= Len(s)
    /\ \A k \in 1..Len(lit) : s[i + k - 1] = lit[k]

\* the same, ignoring case (re.I)
HasAtI(s, i, lit) ==
    /\ i >= 1
    /\ i + Len(lit) - 1 <= Len(s)
    /\ \A k \in 1..Len(lit) : LowerChar(s[i + k - 1]) = LowerChar(lit[k])

-----------------------------------------------------------------------------
(* Python values *)

PyStr(s) == [t |-> "str", v |-> s]

PyDict(d) == [t |-> "dict", v |-> d]

PyList(q) == [t |-> "list", v |-> q]

\* the float n / d
PyFloat(n, d) == [t |-> "float", v |-> n, d |-> d]

PyBool(b) == [t |-> "bool", v |-> b]

PyNone == [t |-> "none", v |-> <<>>]

IsStr(x) == x.t = "str"

IsDict(x) == x.t = "dict"

\* truthiness of a Python value
Truthy(x) ==
    CASE x.t = "none" -> FALSE
      [] x.t = "bool" -> x.v
      [] x.t = "float" -> x.v # 0
      [] x.t = "int" -> x.v # 0
      [] x.t = "str" -> Len(x.v) > 0
      [] x.t = "list" -> Len(x.v) > 0
      [] x.t = "dict" -> DOMAIN x.v # {}

\* d.get(k, default) on a dict value
Get(d, k, default) == IF k \in DOMAIN d.v THEN d.v[k] ELSE default

\* the dict d with d[k] = x
Put(d, k, x) ==
    PyDict([j \in DOMAIN d.v \cup {k} |-> IF j = k THEN x ELSE d.v[j]])

\* d.update(e)
Update(d, e) ==
    PyDict([j \in DOMAIN d.v \cup DOMAIN e.v |->
              IF j \in DOMAIN e.v THEN e.v[j] ELSE d.v[j]])

EmptyDict == PyDict(<<>>)

NotFoundStr == <<"N","o","t"," ","f","o","u","n","d">>

-----------------------------------------------------------------------------
(* src/utils/pdf_extractor.py *)

\* the length a method's trimmed text must exceed for the extractor to stop
PdfSuccessLen == 100

\* the trimmed length below which the final text is insufficient
MinTextLen == 50

\* What a PDF library makes of the bytes: it raises (ok = FALSE) or yields
\* one text per page.  A PDF is the triple of what the three libraries make
\* of it: [plumber, pypdf, ocr].
LibFails == [ok |-> FALSE, pages |-> <<>>]

LibYields(pages) == [ok |-> TRUE, pages |-> pages]

\* "\n\n".join of the pages whose text is not empty; "" when the library raises
PageText(lib) ==
    IF ~lib.ok THEN <<>>
    ELSE Join(SelectSeq(lib.pages, LAMBDA p : Len(p) > 0), <<"\n", "\n">>)

_extract_with_pdfplumber(pdf) == PageText(pdf.plumber)

_extract_with_pypdf2(pdf) == PageText(pdf.pypdf)

_extract_with_ocr(pdf, ocr_available) ==
    IF ~ocr_available THEN <<>> ELSE PageText(pdf.ocr)

\* `text and len(text.strip()) > 100`
MethodSucceeded(text) == Len(text) > 0 /\ Len(Strip(text)) > PdfSuccessLen

\* `not text or len(text.strip()) < 50`
\* the same test with the bound one lower
Insufficient_Below49(text) == Len(text) = 0 \/ Len(Strip(text)) < MinTextLen - 1

Insufficient(text) == Len(text) = 0 \/ Len(Strip(text)) < MinTextLen

\* What a call comes to: it returns a text, or raises an exception of some
\* kind with a message; calls lists what it called on the way.
Returned(text, made) ==
    [outcome |-> "return", text |-> text, msg |-> <<>>, calls |-> made]

Raised(kind, msg, made) ==
    [outcome |-> kind, text |-> <<>>, msg |-> msg, calls |-> made]

\* the tail of extract_text_from_pdf: raise or return the text held last
PdfFinish(text, made) ==
    IF Insufficient(text)
    THEN Raised("ValueError",
                <<"Could not extract sufficient text from PDF">>, made)
    ELSE Returned(text, made)

\* `if use_ocr and OCR_AVAILABLE`
\* OCR whenever the libraries are there, asked for or not
OcrPermitted_Always(use_ocr, ocr_available) == ocr_available

OcrPermitted(use_ocr, ocr_available) == use_ocr /\ ocr_available

\* extract_text_from_pdf without the early return after PyPDF2
extract_text_from_pdf_NoSecondReturn(pdf, use_ocr, ocr_available) ==
    LET t1 == _extract_with_pdfplumber(pdf)
        t2 == _extract_with_pypdf2(pdf)
        t3 == _extract_with_ocr(pdf, ocr_available)
    IN IF MethodSucceeded(t1) THEN Returned(t1, <<"pdfplumber">>)
       ELSE IF OcrPermitted(use_ocr, ocr_available)
       THEN IF MethodSucceeded(t3)
            THEN Returned(t3, <<"pdfplumber", "pypdf2", "ocr">>)
            ELSE PdfFinish(t3, <<"pdfplumber", "pypdf2", "ocr">>)
       ELSE PdfFinish(t2, <<"pdfplumber", "pypdf2">>)

extract_text_from_pdf(pdf, use_ocr, ocr_available) ==
    LET t1 == _extract_with_pdfplumber(pdf) IN
    IF MethodSucceeded(t1) THEN Returned(t1, <<"pdfplumber">>)
    ELSE
    LET t2 == _extract_with_pypdf2(pdf) IN
    IF MethodSucceeded(t2) THEN Returned(t2, <<"pdfplumber", "pypdf2">>)
    ELSE
    IF OcrPermitted(use_ocr, ocr_available)
    THEN LET t3 == _extract_with_ocr(pdf, ocr_available) IN
         IF MethodSucceeded(t3)
         THEN Returned(t3, <<"pdfplumber", "pypdf2", "ocr">>)
         ELSE PdfFinish(t3, <<"pdfplumber", "pypdf2", "ocr">>)
    ELSE PdfFinish(t2, <<"pdfplumber", "pypdf2">>)

\* Page texts around the two thresholds
X(n) == Rep("x", n)

PdfLibResults ==
    { LibFails,
      LibYields(<<>>),
      LibYields(<<Rep(" ", 60)>>),
      LibYields(<<X(49)>>),
      LibYields(<<X(50)>>),
      LibYields(<<X(100)>>),
      LibYields(<<X(101)>>),
      LibYields(<< <<" ">> \o X(100) \o <<"\n">> >>),
      LibYields(<<X(49), <<>>, X(49)>>),
      LibYields(<<X(49), X(50)>>) }

Pdfs == [plumber : PdfLibResults, pypdf : PdfLibResults, ocr : PdfLibResults]

Idle == [outcome |-> "idle", text |-> <<>>, msg |-> <<>>, calls |-> <<>>]

-----------------------------------------------------------------------------
(* src/config.py and src/utils/validators.py *)

MAX_FILE_SIZE == 5 * 1024 * 1024

ALLOWED_EXTENSIONS ==
    << <<"p","d","f">>, <<"d","o","c","x">>, <<"d","o","c">>, <<"t","x","t">>,
       <<"j","p","g">>, <<"p","n","g">>, <<"j","p","e","g">> >>

validate_file_size_Strict(file_size, max_size) == file_size < max_size

validate_file_size(file_size, max_size) == file_size <= max_size

\* os.path.splitext(filename)[1]: from the last dot of the last path
\* component on, unless only dots precede it in that component
SplitExt(filename) ==
    LET sepIndex == RFind(filename, "/")
        dotIndex == RFind(filename, ".")
    IN IF dotIndex > sepIndex
          /\ \E k \in (sepIndex + 1)..(dotIndex - 1) : filename[k] # "."
       THEN Slice(filename, dotIndex, Len(filename))
       ELSE <<>>

\* str.replace('.', '')
DropDots(s) == SelectSeq(s, LAMBDA c : c # ".")

validate_file_extension(filename, allowed_extensions) ==
    LET ext == DropDots(Lower(SplitExt(filename))) IN
    \E i \in 1..Len(allowed_extensions) : Lower(allowed_extensions[i]) = ext

sanitize_filename_DotsToo(filename) ==
    [i \in 1..Len(filename) |->
        IF IsLetter(filename[i]) \/ filename[i] \in Digits
           \/ filename[i] \in {"_", "-"}
        THEN filename[i] ELSE "_"]

\* re.sub(r'[^A-Za-z0-9_.-]', '_', filename)
sanitize_filename(filename) ==
    [i \in 1..Len(filename) |->
        IF IsLetter(filename[i]) \/ filename[i] \in Digits
           \/ filename[i] \in {"_", ".", "-"}
        THEN filename[i] ELSE "_"]

\* the character class [\w\.-] of both email patterns
IsEmailChar(c) == IsWord(c) \/ c \in {".", "-"}

\* `$` matches at the end and also just before one final newline
BeforeFinalNewline(s) ==
    IF Len(s) > 0 /\ s[Len(s)] = "\n" THEN SubSeq(s, 1, Len(s) - 1) ELSE s

\* [\w\.-]+@[\w\.-]+\.\w+ over the whole of e
EmailShape(e) ==
    LET Shape(n, a) ==
            /\ a >= 1
            /\ a + 1 <= n
            /\ e[a + 1] = "@"
            /\ Run(e, a + 2, IsEmailChar) = n - a - 1
            /\ \E d \in (a + 3)..(n - 1) :
                  /\ e[d] = "."
                  /\ \A k \in (d + 1)..n : IsWord(e[k])
    IN Shape(Len(e), Run(e, 1, IsEmailChar))

\* re.match(r"^[\w\.-]+@[\w\.-]+\.\w+$", email)
validate_email(email) ==
    EmailShape(email) \/ EmailShape(BeforeFinalNewline(email))

\* \+?[0-9]{7,15} over the whole of p
PhoneShape(p) ==
    LET body == IF Len(p) > 0 /\ p[1] = "+" THEN Tail(p) ELSE p
    IN /\ Len(body) >= 7
       /\ Len(body) <= 15
       /\ \A k \in 1..Len(body) : body[k] \in Digits

\* re.match(r"^\+?[0-9]{7,15}$", phone)
validate_phone(phone) ==
    PhoneShape(phone) \/ PhoneShape(BeforeFinalNewline(phone))

-----------------------------------------------------------------------------
(* src/utils/docx_extractor.py and extract_text_from_image *)

NewLine == <<"\n">>

\* "\n".join(paragraph texts).strip(); RuntimeError when the container
\* cannot be opened
extract_text_from_docx(docx) ==
    IF ~docx.ok
    THEN Raised("RuntimeError", <<"Error extracting text from DOCX">>,
                <<"docx">>)
    ELSE Returned(Strip(Join(docx.pages, NewLine)), <<"docx">>)

\* img.ok: Image.open accepts the bytes; img.pages[1]: what tesseract reads
extract_text_from_image(img, ocr_available) ==
    IF ~ocr_available
    THEN Raised("ValueError", <<"OCR libraries not available">>, <<>>)
    ELSE IF ~img.ok
    THEN Raised("UnidentifiedImageError", <<"cannot identify image file">>,
                <<"Image.open">>)
    ELSE LET text == img.pages[1] IN
         IF Insufficient(text)
         THEN Raised("ValueError",
                     <<"Could not extract sufficient text from image">>,
                     <<"Image.open", "image_ocr">>)
         ELSE Returned(text, <<"Image.open", "image_ocr">>)

-----------------------------------------------------------------------------
(* src/services/ai_service.py *)

NameLit == <<"N","a","m","e">>

IsColonOrSpace(c) == c = ":" \/ IsSpace(c)

IsLetterOrSpace(c) == IsLetter(c) \/ IsSpace(c)

\* group(1) of re.search(r"Name[:\s]*([A-Za-z\s]+)", text) when the literal
\* is taken at i, or the value NoMatch.  [:\s]* is greedy and gives
\* characters back until the group can take at least one.
NoMatch == [t |-> "none", v |-> <<>>]

Matched(m) == m.t = "str"

NameGroupAt(text, i) ==
    LET Group(from) ==
            PyStr(Slice(text, from, from + Run(text, from, IsLetterOrSpace) - 1))
        GiveBack(back) == IF back = {} THEN NoMatch ELSE Group(MaxOf(back))
        After(j, k) ==
            IF Run(text, k, IsLetterOrSpace) >= 1 THEN Group(k)
            ELSE GiveBack({m \in j..(k - 1) : IsSpace(text[m])})
    IN IF ~HasAt(text, i, NameLit) THEN NoMatch
       ELSE After(i + 4, i + 4 + Run(text, i + 4, IsColonOrSpace))

NameSearch(text) ==
    LET Leftmost(hits) ==
            IF hits = {} THEN NoMatch ELSE NameGroupAt(text, MinOf(hits))
    IN Leftmost({i \in 1..Len(text) : Matched(NameGroupAt(text, i))})

\* the match of [\w\.-]+@[\w\.-]+ that starts at i, or NoMatch
EmailMatchAt(text, i) ==
    LET Match(a, b) ==
            IF a >= 1 /\ i + a <= Len(text) /\ text[i + a] = "@" /\ b >= 1
            THEN PyStr(Slice(text, i, i + a + b))
            ELSE NoMatch
        Local(a) == Match(a, Run(text, i + a + 1, IsEmailChar))
    IN Local(Run(text, i, IsEmailChar))

\* group(0) of re.search(r"[\w\.-]+@[\w\.-]+", text): the leftmost match
EmailSearch(text) ==
    LET Leftmost(hits) ==
            IF hits = {} THEN NoMatch ELSE EmailMatchAt(text, MinOf(hits))
    IN Leftmost({i \in 1..Len(text) : Matched(EmailMatchAt(text, i))})

SkillWords ==
    << <<"P","y","t","h","o","n">>, <<"J","a","v","a">>, <<"C","+","+">>,
       <<"M","a","c","h","i","n","e"," ","L","e","a","r","n","i","n","g">>,
       <<"F","a","s","t","A","P","I">>, <<"D","j","a","n","g","o">>,
       <<"S","Q","L">> >>

\* the first alternative that matches at pos ignoring case, 0 when none does
SkillAt(text, pos) ==
    LET First(alts) == IF alts = {} THEN 0 ELSE MinOf(alts)
    IN First({a \in 1..Len(SkillWords) : HasAtI(text, pos, SkillWords[a])})

\* set(re.findall(r"(Python|Java|C\+\+|...|SQL)", text, re.I)) from pos on:
\* the matched texts as they are written.  findall scans left to right
\* without overlap; no alternative can begin inside a match of another, so
\* the scan finds every position where an alternative matches.
SkillsFrom(text, pos) ==
    {Slice(text, p, p + Len(SkillWords[SkillAt(text, p)]) - 1) :
        p \in {q \in pos..Len(text) : SkillAt(text, q) # 0}}

\* the orders in which list(set(...)) may list the elements of S
Orderings(S) ==
    {q \in [1..Cardinality(S) -> S] : \A x \in S : \E i \in DOMAIN q : q[i] = x}

\* list(set(...)) lists the elements in an order of its own: ListOf(S) is one
\* order and Reverse gives another
ListOf(S) == CHOOSE q \in Orderings(S) : TRUE

Reverse(q) == [i \in 1..Len(q) |-> q[Len(q) + 1 - i]]

\* LightweightAIService.parse_resume, given the summary the model generated
\* and the order in which the set of skills is listed
ai_parse_resume(text, summary, order) ==
    LET name == NameSearch(text)
        email == EmailSearch(text)
    IN PyDict(
        [personalInfo |-> PyDict(
            [name |-> IF Matched(name) THEN PyStr(Strip(name.v))
                      ELSE PyStr(NotFoundStr),
             contact |-> PyDict(
                [email |-> IF Matched(email) THEN email
                           ELSE PyStr(NotFoundStr)])]),
         skills |-> PyList([i \in 1..Len(order) |-> PyStr(order[i])]),
         experience |-> PyList(<<>>),
         education |-> PyList(<<>>),
         summary |-> PyStr(summary)])

-----------------------------------------------------------------------------
(* src/services/parser_service.py *)

\* filename.lower().split('.')[-1]
LastDotPart(filename) ==
    LET low == Lower(filename) IN Slice(low, RFind(low, ".") + 1, Len(low))

Ext(name) ==
    CASE name = "pdf" -> <<"p","d","f">>
      [] name = "docx" -> <<"d","o","c","x">>
      [] name = "doc" -> <<"d","o","c">>
      [] name = "txt" -> <<"t","x","t">>
      [] name = "jpg" -> <<"j","p","g">>
      [] name = "jpeg" -> <<"j","p","e","g">>
      [] name = "png" -> <<"p","n","g">>

\* bytes.decode('utf-8', errors='ignore'): undecodable bytes are dropped
BadByte == "\\xff"

Decode(bytes) == SelectSeq(bytes, LAMBDA b : b # BadByte)

\* options.get('performOCR', True) and options.get('enhanceWithAI', True)
\* the same with False for the default
OptionOn_DefaultOff(options, key) == Truthy(Get(options, key, PyBool(FALSE)))

OptionOn(options, key) == Truthy(Get(options, key, PyBool(TRUE)))

\* ParserService._extract_text: every exception of the branch taken is
\* raised again as ValueError
_extract_text(file, filename, options, ocr_available) ==
    LET file_ext == LastDotPart(filename)
        got ==
          IF file_ext = Ext("pdf")
          THEN extract_text_from_pdf(file.content.pdf, OptionOn(options, "performOCR"),
                                     ocr_available)
          ELSE IF file_ext \in {Ext("docx"), Ext("doc")}
          THEN extract_text_from_docx(file.content.docx)
          ELSE IF file_ext = Ext("txt")
          THEN Returned(Decode(file.content.bytes), <<"decode">>)
          ELSE IF file_ext \in {Ext("jpg"), Ext("jpeg"), Ext("png")}
          THEN IF OptionOn(options, "performOCR")
               THEN extract_text_from_image(file.content.img, ocr_available)
               ELSE Raised("ValueError",
                      <<"OCR is required for image files but was disabled">>,
                      <<>>)
          ELSE Raised("ValueError", <<"Unsupported file format">>, <<>>)
    IN IF got.outcome = "return" THEN got
       ELSE Raised("ValueError",
                   <<"Failed to extract text from file">> \o got.msg,
                   got.calls)

\* str.split(sep) for a one-character separator
RECURSIVE Split(_, _)
Split(s, sep) ==
    LET Rest(i) == <<Slice(s, 1, i - 1)>> \o Split(Slice(s, i + 1, Len(s)), sep)
        Cut(at) == IF at = {} THEN <<s>> ELSE Rest(MinOf(at))
    IN Cut({i \in 1..Len(s) : s[i] = sep})

DigitSeq == <<"0","1","2","3","4","5","6","7","8","9">>

DigitVal(c) == (CHOOSE n \in 1..10 : DigitSeq[n] = c) - 1

RECURSIVE DigitsVal(_)
DigitsVal(ds) ==
    IF Len(ds) = 0 THEN 0
    ELSE 10 * DigitsVal(SubSeq(ds, 1, Len(ds) - 1)) + DigitVal(ds[Len(ds)])

\* int(s): [ok, val]; ok is FALSE where int raises ValueError.  Whitespace
\* around, one sign and single underscores between digits are accepted.
IntOf(s) ==
    LET t == Strip(s)
        signed == Len(t) > 0 /\ t[1] \in {"+", "-"}
        body == IF signed THEN Tail(t) ELSE t
        wellFormed ==
            /\ Len(body) > 0
            /\ \A k \in 1..Len(body) : body[k] \in Digits \cup {"_"}
            /\ body[1] # "_"
            /\ body[Len(body)] # "_"
            /\ \A k \in 1..(Len(body) - 1) : ~(body[k] = "_" /\ body[k + 1] = "_")
        mag == DigitsVal(SelectSeq(body, LAMBDA c : c # "_"))
    IN IF ~wellFormed THEN [ok |-> FALSE, val |-> 0]
       ELSE [ok |-> TRUE, val |-> IF signed /\ t[1] = "-" THEN 0 - mag ELSE mag]

\* now.strftime('%Y-%m'), for years of four digits
TwoDigits(n) == <<DigitSeq[(n \div 10) + 1], DigitSeq[(n % 10) + 1]>>

YearMonth(now) ==
    TwoDigits(now.year \div 100) \o TwoDigits(now.year % 100)
    \o <<"-">> \o TwoDigits(now.month)

Max_Second(a, b) == b

Max(a, b) == IF a >= b THEN a ELSE b

\* One pass of the loop of _calculate_total_experience: "add" with the
\* months the entry adds, "skip" where ValueError or IndexError is caught,
\* "raise" where another exception leaves the function.
EntryMonths(exp, now) ==
    IF ~IsDict(exp) THEN [kind |-> "raise", months |-> 0]
    ELSE
    LET start_date == Get(exp, "startDate", PyNone)
        given == Get(exp, "endDate", PyNone)
        end_date == IF Truthy(given) THEN given ELSE PyStr(YearMonth(now))
    IN
    IF ~Truthy(start_date) THEN [kind |-> "add", months |-> 0]
    ELSE IF ~IsStr(start_date) THEN [kind |-> "raise", months |-> 0]
    ELSE
    LET start_parts == Split(start_date.v, "-")
        end_parts == IF IsStr(end_date) THEN Split(end_date.v, "-") ELSE <<>>
        start_year == IntOf(start_parts[1])
        start_month == IF Len(start_parts) > 1 THEN IntOf(start_parts[2])
                       ELSE [ok |-> TRUE, val |-> 1]
        end_year == IF IsStr(end_date) THEN IntOf(end_parts[1])
                    ELSE [ok |-> TRUE, val |-> now.year]
        end_month == IF ~IsStr(end_date) THEN [ok |-> TRUE, val |-> now.month]
                     ELSE IF Len(end_parts) > 1 THEN IntOf(end_parts[2])
                     ELSE [ok |-> TRUE, val |-> 12]
    IN IF start_year.ok /\ start_month.ok /\ end_year.ok /\ end_month.ok
       THEN [kind |-> "add",
             months |-> Max(0, (end_year.val - start_year.val) * 12
                               + (end_month.val - start_month.val))]
       ELSE [kind |-> "skip", months |-> 0]

RECURSIVE TotalMonths(_, _)
TotalMonths(entries, now) ==
    IF Len(entries) = 0 THEN 0
    ELSE EntryMonths(entries[1], now).months + TotalMonths(Tail(entries), now)

\* round(total_months / 12, 1) in tenths: to nearest, a tie to the even tenth
\* (a tie is a multiple of 0.25, which a float holds exactly)
RoundTenths(total_months) ==
    LET q == (5 * total_months) \div 6
        r == (5 * total_months) % 6
    IN IF r < 3 THEN q
       ELSE IF r > 3 THEN q + 1
       ELSE IF q % 2 = 0 THEN q ELSE q + 1

\* ParserService._calculate_total_experience over a list value; the value
\* Raises where an exception leaves the function
Raises == [t |-> "raise", v |-> <<>>]

IsRaise(x) == x.t = "raise"

_calculate_total_experience_NoCatch(experiences, now) ==
    IF ~Truthy(experiences) THEN PyFloat(0, 10)
    ELSE IF experiences.t # "list" THEN Raises
    ELSE IF \E i \in 1..Len(experiences.v) :
               EntryMonths(experiences.v[i], now).kind \in {"raise", "skip"}
    THEN Raises
    ELSE PyFloat(RoundTenths(TotalMonths(experiences.v, now)), 10)

_calculate_total_experience(experiences, now) ==
    IF ~Truthy(experiences) THEN PyFloat(0, 10)
    ELSE IF experiences.t # "list" THEN Raises
    ELSE IF \E i \in 1..Len(experiences.v) :
               EntryMonths(experiences.v[i], now).kind = "raise"
    THEN Raises
    ELSE PyFloat(RoundTenths(TotalMonths(experiences.v, now)), 10)

\* a text the code never looks into is held as one chunk
Chunk(name) == PyStr(<<name>>)

\* data.get(k1, {}).get(k2, {}): Raises where .get is asked of a non-dict
GetIn(d, k) == IF IsRaise(d) \/ ~IsDict(d) THEN Raises ELSE Get(d, k, EmptyDict)

ContactOf(data) == GetIn(GetIn(data, "personalInfo"), "contact")

\* data.get('personalInfo', {}).get('contact', {}).get(field, default)
ContactField(data, field, default) ==
    LET c == ContactOf(data) IN
    IF IsRaise(c) \/ ~IsDict(c) THEN Raises ELSE Get(c, field, default)

\* data['personalInfo']['contact'][flag] = value
SetContactFlag(data, flag, value) ==
    LET pi == data.v["personalInfo"]
    IN Put(data, "personalInfo", Put(pi, "contact", Put(pi.v["contact"], flag, value)))

\* the two validation steps of _post_process
FlagStep(data, field, flag, Valid(_)) ==
    LET x == ContactField(data, field, PyNone) IN
    IF IsRaise(x) THEN Raises
    ELSE IF ~Truthy(x) THEN data
    ELSE IF ~IsStr(x) THEN Raises
    ELSE SetContactFlag(data, flag, PyBool(Valid(x.v)))

\* `isinstance(summary, str)` ... `elif not isinstance(summary, dict)`
SummaryStep(data) ==
    LET s == Get(data, "summary", PyNone) IN
    IF IsStr(s) THEN Put(data, "summary", PyDict([text |-> s]))
    ELSE IF ~IsDict(s) THEN Put(data, "summary", EmptyDict)
    ELSE data

ConfidenceScores_FromFlatView(data) ==
    LET pi == Get(data, "personalInfo", EmptyDict) IN
    PyDict(
      [overall |-> PyFloat(85, 100),
       contactInfo |-> IF Truthy(Get(data, "contact_info", PyNone))
                       THEN PyFloat(90, 100) ELSE PyFloat(5, 10),
       experience |-> IF Truthy(Get(data, "experience", PyNone))
                      THEN PyFloat(85, 100) ELSE PyFloat(3, 10),
       education |-> IF Truthy(Get(data, "education", PyNone))
                     THEN PyFloat(80, 100) ELSE PyFloat(4, 10),
       skills |-> IF Truthy(Get(data, "skills", PyNone))
                  THEN PyFloat(75, 100) ELSE PyFloat(2, 10)])

ConfidenceScores(data) ==
    LET pi == Get(data, "personalInfo", EmptyDict) IN
    PyDict(
      [overall |-> PyFloat(85, 100),
       contactInfo |-> IF Truthy(Get(pi, "contact", PyNone))
                       THEN PyFloat(90, 100) ELSE PyFloat(5, 10),
       experience |-> IF Truthy(Get(data, "experience", PyNone))
                      THEN PyFloat(85, 100) ELSE PyFloat(3, 10),
       education |-> IF Truthy(Get(data, "education", PyNone))
                     THEN PyFloat(80, 100) ELSE PyFloat(4, 10),
       skills |-> IF Truthy(Get(data, "skills", PyNone))
                  THEN PyFloat(75, 100) ELSE PyFloat(2, 10)])

FlatOutput(data) ==
    LET pi == Get(data, "personalInfo", EmptyDict)
        c == Get(pi, "contact", EmptyDict)
        nf == PyStr(NotFoundStr)
    IN PyDict(
      [name |-> Get(pi, "name", nf),
       contact_info |-> PyDict(
          [email |-> Get(c, "email", nf),
           phone |-> Get(c, "phone", nf),
           linkedin |-> Get(c, "linkedin", nf),
           location |-> Get(c, "location", nf),
           portfolio |-> Get(c, "portfolio", nf)]),
       summary |-> Get(data.v["summary"], "text", PyStr(<<>>))])

\* data.update(flat_output)
FlattenStep(data) == Update(data, FlatOutput(data))

\* ParserService._post_process up to `data.update(flat_output)`: the profile
\* before the flatten step; the value Raises where an exception leaves it
BeforeFlatten(data, now) ==
    LET Scored(d4) == Put(d4, "confidenceScores", ConfidenceScores(d4))
        Totalled(d3, total) ==
            Scored(Put(d3, "summary",
                       Put(d3.v["summary"], "totalYearsOfExperience", total)))
        Summarised(d2, total) ==
            IF IsRaise(total) THEN Raises ELSE Totalled(SummaryStep(d2), total)
        PhoneChecked(d2) ==
            IF IsRaise(d2) THEN Raises
            ELSE Summarised(d2, _calculate_total_experience(
                                    Get(d2, "experience", PyList(<<>>)), now))
        EmailChecked(d1) ==
            IF IsRaise(d1) THEN Raises
            ELSE PhoneChecked(FlagStep(d1, "phone", "phoneValid", validate_phone))
    IN EmailChecked(FlagStep(data, "email", "emailValid", validate_email))

\* ParserService._post_process; the value Raises where an exception leaves it
_post_process(data, now) ==
    LET Flattened(nested) ==
            IF IsRaise(nested) THEN Raises ELSE FlattenStep(nested)
    IN Flattened(BeforeFlatten(data, now))

\* ParserService._get_file_type
_get_file_type(filename) ==
    LET ext == LastDotPart(filename) IN
    CASE ext = Ext("pdf") -> "application/pdf"
      [] ext = Ext("docx") ->
           "application/vnd.openxmlformats-officedocument.wordprocessingml.document"
      [] ext = Ext("doc") -> "application/msword"
      [] ext = Ext("txt") -> "text/plain"
      [] ext \in {Ext("jpg"), Ext("jpeg")} -> "image/jpeg"
      [] ext = Ext("png") -> "image/png"
      [] OTHER -> "application/octet-stream"

\* hashlib.sha256(file_content).hexdigest(), taken as free of collisions
Sha256(file) == [t |-> "sha256", v |-> <<file.size, file.content>>]

\* how much of the raw text the profile keeps
RawTextKeep == 5000

Min(a, b) == IF a <= b THEN a ELSE b

\* What parse_resume comes to: the profile, or the exception it raises.
Parsed(data, made) ==
    [outcome |-> "return", data |-> data, msg |-> <<>>, calls |-> made]

ParseFailed(kind, msg, made) ==
    [outcome |-> kind, data |-> PyNone, msg |-> msg, calls |-> made]

\* The language model's part in one upload: what generate_summary returns to
\* parse_resume and to enhance_with_ai, or LlmRaises.
LlmRaises == [t |-> "raise", v |-> <<>>]

\* ParserService.parse_resume.  req: the file and its size, the parsed
\* options, the model's behaviour (llm), the order in which the skill set is
\* listed (rev), the clock (now).
parse_resume(req, filename, ocr_available) ==
    LET enhance == OptionOn(req.options, "enhanceWithAI")
        ai_enhancements ==
            IF enhance THEN PyDict([enhancedSummary |-> req.llm.enhance])
            ELSE EmptyDict
        Order(found) ==
            IF req.rev THEN Reverse(ListOf(found)) ELSE ListOf(found)
        Metadata(raw_text) == PyDict(
            [fileName |-> PyStr(filename),
             fileSize |-> [t |-> "int", v |-> req.file.size],
             fileType |-> Chunk(_get_file_type(filename)),
             fileHash |-> Sha256(req.file),
             uploadedAt |-> [t |-> "datetime", v |-> req.now],
             processedAt |-> [t |-> "datetime", v |-> req.now],
             rawTextLength |-> [t |-> "int", v |-> Len(raw_text)],
             parsingMethod |-> Chunk("AI-GPT4")])
        CompleteData(raw_text, structured_data) ==
            Put(Update(PyDict([metadata |-> Metadata(raw_text),
                               rawText |-> PyStr(Slice(raw_text, 1,
                                              Min(Len(raw_text), RawTextKeep)))]),
                       structured_data),
                "aiEnhancements", ai_enhancements)
        Finished(done, made) ==
            IF IsRaise(done)
            THEN ParseFailed("AttributeError", <<"post-processing">>, made)
            ELSE Parsed(done, made)
        Structure(raw_text, afterLlm1, afterLlm2) ==
            IF IsRaise(req.llm.parse)
            THEN ParseFailed("RuntimeError", <<"model failure">>, afterLlm1)
            ELSE IF enhance /\ IsRaise(req.llm.enhance)
            THEN ParseFailed("RuntimeError", <<"model failure">>, afterLlm2)
            ELSE Finished(
                   _post_process(
                     CompleteData(raw_text,
                                  ai_parse_resume(raw_text, req.llm.parse.v,
                                                  Order(SkillsFrom(raw_text, 1)))),
                     req.now),
                   afterLlm2)
        Extracted(ex) ==
            IF ex.outcome # "return" THEN ParseFailed(ex.outcome, ex.msg, ex.calls)
            ELSE IF Insufficient(ex.text)
            THEN ParseFailed("ValueError",
                     <<"Could not extract sufficient text from document">>,
                     ex.calls)
            ELSE Structure(ex.text,
                           ex.calls \o <<"generate_summary">>,
                           ex.calls \o (IF enhance
                                        THEN <<"generate_summary", "generate_summary">>
                                        ELSE <<"generate_summary">>))
    IN Extracted(_extract_text(req.file, filename, req.options, ocr_available))

-----------------------------------------------------------------------------
(* src/utils/validators.py: the Resume schema *)

IsList(x) == x.t = "list"

\* Optional[str]
IsOptStr(x) == x.t \in {"str", "none"}

\* a required field of the given type
Has(d, k, Type(_)) == k \in DOMAIN d.v /\ Type(d.v[k])

\* a List[...] field with default []: absent, or a list of valid items
ListField(d, k, Item(_)) ==
    k \notin DOMAIN d.v
    \/ (IsList(d.v[k]) /\ \A i \in 1..Len(d.v[k].v) : Item(d.v[k].v[i]))

ContactInfoOk(c) ==
    IsDict(c) /\ \A k \in {"email", "phone", "linkedin", "location", "portfolio"} :
                    Has(c, k, IsOptStr)

ExperienceOk(e) ==
    /\ IsDict(e)
    /\ Has(e, "title", IsStr)
    /\ Has(e, "company", IsStr)
    /\ \A k \in {"location", "start_date", "end_date"} : Has(e, k, IsOptStr)
    /\ ListField(e, "description", IsStr)

EducationOk(e) ==
    /\ IsDict(e)
    /\ Has(e, "institution", IsStr)
    /\ Has(e, "degree", IsStr)
    /\ \A k \in {"start_date", "end_date"} : Has(e, k, IsOptStr)

ProjectOk(e) ==
    /\ IsDict(e)
    /\ Has(e, "title", IsStr)
    /\ \A k \in {"description", "link"} : Has(e, k, IsOptStr)

\* Resume(**parsed_data) validates
ResumeOk(data) ==
    /\ Has(data, "name", IsStr)
    /\ Has(data, "contact_info", ContactInfoOk)
    /\ Has(data, "summary", IsOptStr)
    /\ ListField(data, "work_experience", ExperienceOk)
    /\ ListField(data, "education", EducationOk)
    /\ ListField(data, "projects", ProjectOk)
    /\ ListField(data, "skills", IsStr)
    /\ ListField(data, "tools", IsStr)

ResumeFields ==
    {"name", "contact_info", "summary", "work_experience", "education",
     "projects", "skills", "tools"}

\* Resume(**parsed_data).dict(): the fields of the schema and no other key
ResumeDict(data) ==
    PyDict([k \in ResumeFields |-> Get(data, k, PyList(<<>>))])

-----------------------------------------------------------------------------
(* src/api/routes/resumes.py *)

HTTPException(code, detail) ==
    [exc |-> "HTTPException", code |-> code, detail |-> detail]

Exception(kind, msg) == [exc |-> kind, code |-> 0, detail |-> msg]

\* The except clauses of upload_resume: an HTTPException is raised again as
\* it is, any other exception becomes a 500.
UploadCatch_All(e) == HTTPException(500, e.detail)

UploadCatch(e) ==
    IF e.exc = "HTTPException" THEN e ELSE HTTPException(500, e.detail)

\* The except clause of get, update, delete and status: `except Exception`
\* takes an HTTPException too and makes a 500 of it.
HandlerCatch(e) == HTTPException(500, e.detail)

\* main.py: the handler registered for 404 answers with an "error" body;
\* other HTTPExceptions answer with their detail
ErrorBody(e) ==
    IF e.code = 404 THEN PyDict([error |-> Chunk("NOT_FOUND")])
    ELSE PyDict([detail |-> PyStr(e.detail)])

Response(op, id, code, body) == [op |-> op, id |-> id, code |-> code, body |-> body]

ErrorResponse(op, id, e) == Response(op, id, e.code, ErrorBody(e))

NotFound == HTTPException(404, <<"Resume not found">>)

\* uuid.uuid4(): an identifier never handed out before
FreshId == CHOOSE i \in Ids \ usedIds : \A j \in Ids \ usedIds : i <= j

\* json.loads(options) when the form field is given: the dict it parses to,
\* {} when it is absent or no JSON
ParseOptions(options) == IF IsDict(options) THEN options ELSE EmptyDict

\* What upload_resume comes to for a request, apart from the identifier:
\* the status code and body, the calls made, whether uuid4 was reached and
\* whether the record is written, and the data of the record.
UploadRejected(e, made) ==
    [code |-> e.code, body |-> ErrorBody(e), calls |-> made,
     usesId |-> FALSE, stored |-> FALSE, data |-> PyNone]

UploadFailed_Stored(e, made) ==
    [code |-> e.code, body |-> ErrorBody(e), calls |-> made,
     usesId |-> TRUE, stored |-> TRUE, data |-> PyNone]

UploadFailed(e, made) ==
    [code |-> e.code, body |-> ErrorBody(e), calls |-> made,
     usesId |-> TRUE, stored |-> FALSE, data |-> PyNone]

UploadOutcome(req, ocr_available) ==
    LET file == req.file
        guards == <<"validate_file_size", "validate_file_extension">>
        Answer(parsed, made) ==
            IF parsed.outcome # "return"
            THEN UploadFailed(UploadCatch(Exception(parsed.outcome, parsed.msg)),
                              made)
            ELSE IF ~ResumeOk(parsed.data)
            THEN UploadFailed(
                     UploadCatch(HTTPException(422, <<"validation error">>)),
                     made \o <<"Resume">>)
            ELSE [code |-> 202,
                  body |-> PyDict([status |-> Chunk("completed")]),
                  calls |-> made \o <<"Resume", "put">>,
                  usesId |-> TRUE, stored |-> TRUE,
                  data |-> ResumeDict(parsed.data)]
        Parse(parsed) ==
            Answer(parsed, guards \o <<"parse_resume">> \o parsed.calls)
    IN IF ~validate_file_size(file.size, MAX_FILE_SIZE)
       THEN UploadRejected(
                UploadCatch(HTTPException(413, <<"FILE_TOO_LARGE">>)),
                <<"validate_file_size">>)
       ELSE IF ~validate_file_extension(file.filename, ALLOWED_EXTENSIONS)
       THEN UploadRejected(
                UploadCatch(HTTPException(415, <<"UNSUPPORTED_FORMAT">>)),
                guards)
       ELSE Parse(parse_resume([req EXCEPT !.options = ParseOptions(req.options)],
                               sanitize_filename(file.filename), ocr_available))

-----------------------------------------------------------------------------
(* The requests the model sends *)

NoPdf == [plumber |-> LibFails, pypdf |-> LibFails, ocr |-> LibFails]

\* What the bytes of a file are to each reader: the text they decode to,
\* and what the PDF, DOCX and image libraries make of them.
TxtContent(text) ==
    [bytes |-> text, pdf |-> NoPdf, docx |-> LibFails, img |-> LibFails]

Binary == <<BadByte, "P", "K", BadByte>>

PdfContent(pdf) ==
    [bytes |-> Binary, pdf |-> pdf, docx |-> LibFails, img |-> LibFails]

DocxContent(lib) ==
    [bytes |-> Binary, pdf |-> NoPdf, docx |-> lib, img |-> LibFails]

ImgContent(lib) ==
    [bytes |-> Binary, pdf |-> NoPdf, docx |-> LibFails, img |-> lib]

File(filename, size, content) ==
    [filename |-> filename, size |-> size, content |-> content]

NameLine == <<"N","a","m","e",":"," ","A","l","\n">>

EmailAB == <<"a","@","b",".","c","o">>

Python == <<"P","y","t","h","o","n">>

PythonSql == <<"P","y","t","h","o","n",","," ","s","q","l">>

\* A plain-text resume: an optional name line, an optional email followed by
\* tail, an optional dated experience entry, skills, and pad more characters
ResumeText(name, email, tail, dated, skills, pad) ==
    (IF name THEN NameLine ELSE <<>>)
    \o email \o tail
    \o (IF dated
        THEN <<"D","e","v"," ","|"," ","2","0","2","0","-","2","0","2","4","\n">>
        ELSE <<>>)
    \o skills \o <<" ">> \o X(pad)

\* what the resume says of its owner, whatever the parser makes of it
Truth(email, dated) == [email |-> email, dated |-> dated]

NoTruth == Truth(<<>>, FALSE)

Clock == [year |-> 2024, month |-> 1]

LlmOk == [parse |-> PyStr(<<"s">>), enhance |-> PyStr(<<"e">>)]

LlmFailsFirst == [parse |-> LlmRaises, enhance |-> PyStr(<<"e">>)]

LlmFailsSecond == [parse |-> PyStr(<<"s">>), enhance |-> LlmRaises]

NoOptions == PyNone

BadJson == [t |-> "badjson", v |-> <<>>]

NoOcr == PyDict([performOCR |-> PyBool(FALSE)])

NoEnhance == PyDict([enhanceWithAI |-> PyBool(FALSE)])

Request(file, options, llm, rev, truth) ==
    [file |-> file, options |-> options, llm |-> llm, rev |-> rev,
     now |-> Clock, truth |-> truth]

Plain(file, truth) == Request(file, NoOptions, LlmOk, FALSE, truth)

CvTxt == <<"c","v",".","t","x","t">>

CvXlsx == <<"c","v",".","x","l","s","x">>

CvPdf == <<"c","v",".","p","d","f">>

CvDocx == <<"m","y"," ","c","v",".","d","o","c","x">>

CvPng == <<"c","v",".","p","n","g">>

FullText == ResumeText(TRUE, EmailAB, <<"\n">>, TRUE, Python, 40)

FullTruth == Truth(EmailAB, TRUE)

TxtUploads ==
    << Plain(File(CvTxt, 400, TxtContent(FullText)), FullTruth),
       Plain(File(CvTxt, 400, TxtContent(
                 ResumeText(TRUE, EmailAB, <<".", "\n">>, TRUE, Python, 40))),
             FullTruth),
       Plain(File(CvTxt, 400, TxtContent(
                 ResumeText(FALSE, EmailAB, <<",", " ">>, FALSE, <<>>, 50))),
             Truth(EmailAB, FALSE)),
       Plain(File(CvTxt, 400, TxtContent(
                 ResumeText(FALSE, <<>>, <<>>, TRUE, <<>>, 50))),
             Truth(<<>>, TRUE)),
       Plain(File(CvTxt, 400, TxtContent(
                 ResumeText(TRUE, EmailAB, <<" ">>, FALSE, PythonSql, 40))),
             Truth(EmailAB, FALSE)),
       Request(File(CvTxt, 400, TxtContent(
                 ResumeText(TRUE, EmailAB, <<" ">>, FALSE, PythonSql, 40))),
               NoOptions, LlmOk, TRUE, Truth(EmailAB, FALSE)),
       Plain(File(CvTxt, 20, TxtContent(
                 ResumeText(FALSE, EmailAB, <<>>, FALSE, <<>>, 5))),
             Truth(EmailAB, FALSE)),
       Plain(File(CvTxt, 60, TxtContent(<<" ", BadByte>> \o X(49) \o <<"\n">>)),
             NoTruth),
       Plain(File(CvTxt, 60, TxtContent(<<" ", BadByte>> \o X(50) \o <<"\n">>)),
             NoTruth),
       Request(File(CvTxt, 400, TxtContent(FullText)),
               NoEnhance, LlmOk, FALSE, FullTruth),
       Request(File(CvTxt, 400, TxtContent(FullText)),
               BadJson, LlmOk, FALSE, FullTruth),
       Request(File(CvTxt, 400, TxtContent(FullText)),
               NoOptions, LlmFailsFirst, FALSE, FullTruth),
       Request(File(CvTxt, 400, TxtContent(FullText)),
               NoOptions, LlmFailsSecond, FALSE, FullTruth),
       Request(File(CvTxt, 400, TxtContent(FullText)),
               NoEnhance, LlmFailsSecond, FALSE, FullTruth) >>

GuardUploads ==
    << Plain(File(CvTxt, MAX_FILE_SIZE, TxtContent(FullText)), FullTruth),
       Plain(File(CvTxt, MAX_FILE_SIZE + 1, TxtContent(FullText)), FullTruth),
       Plain(File(<<"C","V",".","T","X","T">>, 400, TxtContent(FullText)), FullTruth),
       Plain(File(CvXlsx, 400, TxtContent(FullText)), FullTruth),
       Plain(File(CvXlsx, MAX_FILE_SIZE, TxtContent(FullText)), FullTruth),
       Plain(File(CvXlsx, MAX_FILE_SIZE + 1, TxtContent(FullText)), FullTruth),
       Plain(File(<<"c","v">>, 400, TxtContent(FullText)), FullTruth),
       Plain(File(<<".","p","d","f">>, 400, PdfContent(NoPdf)), NoTruth) >>

Pdf(plumber, pypdf, ocr) == [plumber |-> plumber, pypdf |-> pypdf, ocr |-> ocr]

BinaryUploads ==
    << Plain(File(CvPdf, 900, PdfContent(
                 Pdf(LibYields(<<X(101)>>), LibFails, LibFails))), NoTruth),
       Plain(File(CvPdf, 900, PdfContent(
                 Pdf(LibYields(<<X(80)>>), LibYields(<<>>),
                     LibYields(<<X(60)>>)))), NoTruth),
       Request(File(CvPdf, 900, PdfContent(
                 Pdf(LibYields(<<X(80)>>), LibYields(<<>>),
                     LibYields(<<X(60)>>)))),
               NoOcr, LlmOk, FALSE, NoTruth),
       Plain(File(CvPdf, 900, TxtContent(FullText)), FullTruth),
       Plain(File(CvDocx, 900, DocxContent(
                 LibYields(<<NameLine, EmailAB, X(50)>>))), Truth(EmailAB, FALSE)),
       Plain(File(CvDocx, 900, DocxContent(LibFails)), NoTruth),
       Plain(File(CvPng, 900, ImgContent(LibYields(<<X(50)>>))), NoTruth),
       Plain(File(CvPng, 900, ImgContent(LibYields(<<X(49)>>))), NoTruth),
       Plain(File(CvPng, 900, ImgContent(LibFails)), NoTruth),
       Request(File(CvPng, 900, ImgContent(LibYields(<<X(50)>>))),
               NoOcr, LlmOk, FALSE, NoTruth),
       Plain(File(CvDocx, 900, DocxContent(
                 LibYields(<< <<" ">> \o X(49), <<>> >>))), NoTruth),
       Plain(File(<<"c","v",".","d","o","c">>, 900, DocxContent(
                 LibYields(<<X(20)>>))), NoTruth),
       Plain(File(<<"c","v",".","j","p","g">>, 900, ImgContent(
                 LibYields(<<X(49) \o <<"\n">> >>))), NoTruth),
       Plain(File(<<"c","v",".","j","p","e","g">>, 900, ImgContent(
                 LibYields(<<X(20)>>))), NoTruth),
       Request(File(<<"c","v",".","j","p","g">>, 900, ImgContent(
                 LibYields(<<X(49)>>))), NoOcr, LlmOk, FALSE, NoTruth),
       Request(File(<<"c","v",".","j","p","e","g">>, 900, ImgContent(LibFails)),
               NoOcr, LlmOk, FALSE, NoTruth) >>

UploadInputs == TxtUploads \o GuardUploads \o BinaryUploads

\* UploadOutcome for each request, with and without the OCR libraries
Outcomes ==
    [ocr \in BOOLEAN |->
        [k \in 1..Len(UploadInputs) |-> UploadOutcome(UploadInputs[k], ocr)]]

-----------------------------------------------------------------------------
(* The handlers *)

NoResponse == Response("none", 0, 0, PyNone)

\* ret before the function under study is called
NotCalled == [t |-> "idle", v |-> <<>>]

Served(op, id, k) == [op |-> op, id |-> id, k |-> k]

\* how many handlers the event loop has begun and not finished at a time
NumTasks == 2

Tasks == 1..NumTasks

\* a task with no request in it
IdleTask == [pc |-> "idle", op |-> "none", id |-> 0, k |-> 0, waited |-> 0]

NoTasks == [t \in Tasks |-> IdleTask]

Init ==
    /\ resumes_db = <<>>
    /\ origin = <<>>
    /\ usedIds = {}
    /\ deleted = {}
    /\ resp = NoResponse
    /\ calls = <<>>
    /\ lastReq = Served("none", 0, 0)
    /\ OCR_AVAILABLE \in BOOLEAN
    /\ pdfIn = [pdf |-> NoPdf, use_ocr |-> TRUE]
    /\ pdfOut = Idle
    /\ arg = PyNone
    /\ ret = NotCalled
    /\ tasks = NoTasks
    /\ running = 0

\* resumes_db[resume_id] = {...}
Record_Processing(id, data, now) ==
    [id |-> id, status |-> "processing", data |-> data, uploadedAt |-> now]

Record(id, data, now) ==
    [id |-> id, status |-> "completed", data |-> data, uploadedAt |-> now]

\* POST /resumes/upload with request number k
upload_resume(k) ==
    \E out \in {Outcomes[OCR_AVAILABLE][k]} :
       /\ out.usesId => usedIds # Ids
       /\ \E resume_id \in {IF out.usesId THEN FreshId ELSE 0} :
            /\ usedIds' = IF out.usesId THEN usedIds \cup {resume_id} ELSE usedIds
            /\ resumes_db' =
                 IF out.stored
                 THEN [i \in DOMAIN resumes_db \cup {resume_id} |->
                         IF i = resume_id
                         THEN Record(resume_id, out.data, UploadInputs[k].now)
                         ELSE resumes_db[i]]
                 ELSE resumes_db
            /\ origin' =
                 IF out.stored
                 THEN [i \in DOMAIN origin \cup {resume_id} |->
                         IF i = resume_id THEN k ELSE origin[i]]
                 ELSE origin
            /\ resp' = Response("upload", IF out.stored THEN resume_id ELSE 0,
                                out.code, out.body)
            /\ calls' = out.calls
            /\ lastReq' = Served("upload", resume_id, k)
            /\ UNCHANGED <<deleted, OCR_AVAILABLE, pdfIn, pdfOut, arg, ret>>

\* GET /resumes/{id}
get_resume(id) ==
    /\ resp' = IF id \notin DOMAIN resumes_db
               THEN ErrorResponse("get", id, HandlerCatch(NotFound))
               ELSE Response("get", id, 200,
                             Put(resumes_db[id].data, "id", [t |-> "id", v |-> id]))
    /\ calls' = <<>>
    /\ lastReq' = Served("get", id, 0)
    /\ UNCHANGED <<resumes_db, origin, usedIds, deleted, OCR_AVAILABLE, pdfIn, pdfOut,
                   arg, ret>>

\* DELETE /resumes/{id}
delete_resume(id) ==
    /\ IF id \notin DOMAIN resumes_db
       THEN /\ resp' = ErrorResponse("delete", id, HandlerCatch(NotFound))
            /\ UNCHANGED <<resumes_db, origin, deleted>>
       ELSE /\ resumes_db' = [i \in DOMAIN resumes_db \ {id} |-> resumes_db[i]]
            /\ origin' = [i \in DOMAIN origin \ {id} |-> origin[i]]
            /\ deleted' = deleted \cup {id}
            /\ resp' = Response("delete", id, 204, PyNone)
    /\ calls' = <<>>
    /\ lastReq' = Served("delete", id, 0)
    /\ UNCHANGED <<usedIds, OCR_AVAILABLE, pdfIn, pdfOut, arg, ret>>

\* the bodies sent to PUT /resumes/{id}: a dict for a key that holds a dict,
\* with keys the data has not; a text for that key
UpdateInputs ==
    << PyDict([contact_info |-> PyDict([email |-> PyStr(<<"b","@","c",".","d","e">>),
                                        github |-> PyStr(<<"b","o">>)]),
               status |-> Chunk("processing"),
               metadata |-> EmptyDict]),
       PyDict([contact_info |-> PyStr(<<"n","o","n","e">>)]) >>

Merged_AddsKeys(data, update_data) ==
    PyDict([key \in DOMAIN data.v \cup DOMAIN update_data.v |->
              IF key \notin DOMAIN update_data.v THEN data.v[key]
              ELSE IF key \notin DOMAIN data.v THEN update_data.v[key]
              ELSE IF IsDict(data.v[key]) /\ IsDict(update_data.v[key])
              THEN Update(data.v[key], update_data.v[key])
              ELSE update_data.v[key]])

\* data after the loop `for key, value in update_data.items()`
Merged(data, update_data) ==
    PyDict([key \in DOMAIN data.v |->
              IF key \notin DOMAIN update_data.v THEN data.v[key]
              ELSE IF IsDict(data.v[key]) /\ IsDict(update_data.v[key])
              THEN Update(data.v[key], update_data.v[key])
              ELSE update_data.v[key]])

\* PUT /resumes/{id} with request body number p
update_resume(id, p) ==
    /\ IF id \notin DOMAIN resumes_db
       THEN /\ resp' = ErrorResponse("update", id, HandlerCatch(NotFound))
            /\ UNCHANGED resumes_db
       ELSE \E data \in {Merged(resumes_db[id].data, UpdateInputs[p])} :
              /\ resumes_db' = [resumes_db EXCEPT ![id].data = data]
              /\ resp' = Response("update", id, 200,
                                  Put(data, "id", [t |-> "id", v |-> id]))
    /\ calls' = <<>>
    /\ lastReq' = Served("update", id, p)
    /\ UNCHANGED <<origin, usedIds, deleted, OCR_AVAILABLE, pdfIn, pdfOut, arg, ret>>

\* GET /resumes/{id}/status
get_processing_status(id) ==
    LET resume == resumes_db[id]
        metadata == Get(resume.data, "metadata", EmptyDict)
        Status(fields) ==
            Put(PyDict(fields), "id", [t |-> "id", v |-> id])
        completed ==
            Status([status |-> Chunk("completed"),
                    progress |-> [t |-> "int", v |-> 100],
                    currentStep |-> Chunk("completed"),
                    completedAt |-> [t |-> "datetime", v |-> resume.uploadedAt],
                    processingTime |->
                        Get(metadata, "processingTime", [t |-> "int", v |-> 0])])
        processing ==
            Status([status |-> Chunk("processing"),
                    progress |-> [t |-> "int", v |-> 50],
                    currentStep |-> Chunk("ai_parsing"),
                    estimatedTimeRemaining |-> [t |-> "int", v |-> 20]])
    IN /\ resp' =
            IF id \notin DOMAIN resumes_db
            THEN ErrorResponse("status", id, HandlerCatch(NotFound))
            ELSE IF resume.status # "completed"
            THEN Response("status", id, 200, processing)
            ELSE IF ~IsDict(metadata)
            THEN ErrorResponse("status", id,
                     HandlerCatch(Exception("AttributeError", <<"get">>)))
            ELSE Response("status", id, 200, completed)
       /\ calls' = <<>>
       /\ lastReq' = Served("status", id, 0)
       /\ UNCHANGED <<resumes_db, origin, usedIds, deleted, OCR_AVAILABLE,
                      pdfIn, pdfOut, arg, ret>>

Upload ==
    \E k \in 1..Len(UploadInputs) : upload_resume(k) /\ UNCHANGED <<tasks, running>>

GetResume == \E id \in Ids : get_resume(id) /\ UNCHANGED <<tasks, running>>

DeleteResume == \E id \in Ids : delete_resume(id) /\ UNCHANGED <<tasks, running>>

Next == Upload \/ GetResume \/ DeleteResume

Spec == Init /\ [][Next]_vars

-----------------------------------------------------------------------------
(* The handlers as coroutines of one event loop *)

\* Settings.OPENAI_TIMEOUT, in seconds
OPENAI_TIMEOUT == 30

\* how many seconds pass between two looks at the clock
TickSeconds == 10

\* the uploads sent under SpecLoop: one that is stored, one whose text is too
\* short, one of a format that is not supported
LoopUploads == {1, 7, 18}

\* the event loop's thread is free to run a handler: none is running on it
LoopFree == running = 0

\* whether the handler has an await that suspends it between its check
\* `id not in resumes_db` and its access to resumes_db[id]
AwaitsAfterCheck_InDelete(op) == op = "delete"

AwaitsAfterCheck(op) == FALSE

\* resumes_db[id] where the key is gone: KeyError, caught by `except Exception`
KeyErrorResponse(op, id, p) ==
    /\ resp' = ErrorResponse(op, id, HandlerCatch(Exception("KeyError", <<"KeyError">>)))
    /\ calls' = <<>>
    /\ lastReq' = Served(op, id, p)
    /\ UNCHANGED <<resumes_db, origin, usedIds, deleted, OCR_AVAILABLE,
                   pdfIn, pdfOut, arg, ret>>

\* get_resume, update_resume, delete_resume or get_processing_status on the
\* loop: begun by task t, or resumed where task t was suspended
Handle(t) ==
    /\ LoopFree
    /\ UNCHANGED running
    /\ \E op \in {"get", "update", "delete", "status"}, id \in Ids,
          p \in 0..Len(UpdateInputs) :
          /\ (op = "update") = (p # 0)
          /\ tasks[t].pc \in {"idle", "checked"}
          /\ tasks[t].pc = "checked" => <<op, id, p>> = <<tasks[t].op, tasks[t].id, tasks[t].k>>
          /\ IF tasks[t].pc = "idle" /\ AwaitsAfterCheck(op) /\ id \in DOMAIN resumes_db
             THEN /\ tasks' = [tasks EXCEPT ![t] = [pc |-> "checked", op |-> op,
                                                    id |-> id, k |-> p, waited |-> 0]]
                  /\ UNCHANGED <<resumes_db, origin, usedIds, deleted, resp, calls,
                                 lastReq, OCR_AVAILABLE, pdfIn, pdfOut, arg, ret>>
             ELSE /\ tasks' = [tasks EXCEPT ![t] = IdleTask]
                  /\ IF tasks[t].pc = "checked" /\ id \notin DOMAIN resumes_db
                     THEN KeyErrorResponse(op, id, p)
                     ELSE \/ op = "get" /\ get_resume(id)
                          \/ op = "update" /\ update_resume(id, p)
                          \/ op = "delete" /\ delete_resume(id)
                          \/ op = "status" /\ get_processing_status(id)

\* upload_resume begun by task t: it runs up to `await file.read()`
UploadStart(t) ==
    /\ LoopFree
    /\ tasks[t].pc = "idle"
    /\ \E k \in LoopUploads :
          tasks' = [tasks EXCEPT ![t] = [pc |-> "read", op |-> "upload", id |-> 0,
                                        k |-> k, waited |-> 0]]
    /\ UNCHANGED <<resumes_db, origin, usedIds, deleted, resp, calls, lastReq,
                   OCR_AVAILABLE, pdfIn, pdfOut, arg, ret, running>>

\* upload_resume goes on: resumed after file.read() it runs the guards and
\* enters _extract_text; from there to its return it awaits nothing that
\* suspends it, so it keeps the loop's thread through extraction and through
\* the calls of the model
UploadStep(t) ==
    /\ tasks[t].pc \in {"read", "extract", "structure"}
    /\ tasks[t].pc = "read" => LoopFree
    /\ \E out \in {Outcomes[OCR_AVAILABLE][tasks[t].k]} :
          IF \/ tasks[t].pc = "read" /\ ~out.usesId
             \/ tasks[t].pc = "extract" /\ "generate_summary" \notin Range(out.calls)
             \/ tasks[t].pc = "structure"
          THEN /\ upload_resume(tasks[t].k)
               /\ tasks' = [tasks EXCEPT ![t] = IdleTask]
               /\ running' = 0
          ELSE /\ usedIds # Ids
               /\ tasks' = [tasks EXCEPT ![t].pc = IF tasks[t].pc = "read"
                                                   THEN "extract" ELSE "structure"]
               /\ running' = t
               /\ UNCHANGED <<resumes_db, origin, usedIds, deleted, resp, calls,
                              lastReq, OCR_AVAILABLE, pdfIn, pdfOut, arg, ret>>

\* time passes while model.generate has not returned
Tick(t) ==
    /\ tasks[t].pc = "structure"
    /\ tasks[t].waited <= OPENAI_TIMEOUT
    /\ tasks' = [tasks EXCEPT ![t].waited = @ + TickSeconds]
    /\ UNCHANGED <<resumes_db, origin, usedIds, deleted, resp, calls, lastReq,
                   OCR_AVAILABLE, pdfIn, pdfOut, arg, ret, running>>

NextLoop == \E t \in Tasks : Handle(t) \/ UploadStart(t) \/ UploadStep(t) \/ Tick(t)

\* the service at rest, pytesseract installed
InitLoop == Init /\ OCR_AVAILABLE

SpecLoop == InitLoop /\ [][NextLoop]_vars

-----------------------------------------------------------------------------
(* The PDF extractor on its own: every PDF, with OCR asked for or not *)

InitPdf ==
    /\ resumes_db = <<>>
    /\ origin = <<>>
    /\ usedIds = {}
    /\ deleted = {}
    /\ resp = NoResponse
    /\ calls = <<>>
    /\ lastReq = Served("none", 0, 0)
    /\ OCR_AVAILABLE \in BOOLEAN
    /\ pdfIn \in [pdf : Pdfs, use_ocr : BOOLEAN]
    /\ pdfOut = Idle
    /\ arg = PyNone
    /\ ret = NotCalled
    /\ tasks = NoTasks
    /\ running = 0

ExtractPdf ==
    /\ pdfOut.outcome = "idle"
    /\ pdfOut' = extract_text_from_pdf(pdfIn.pdf, pdfIn.use_ocr, OCR_AVAILABLE)
    /\ UNCHANGED <<resumes_db, origin, usedIds, deleted, resp, calls, lastReq,
                   OCR_AVAILABLE, pdfIn, arg, ret, tasks, running>>

NextPdf == ExtractPdf

SpecPdf == InitPdf /\ [][NextPdf]_vars

-----------------------------------------------------------------------------
(* Single functions on their own: one call, its argument drawn by Init *)

\* what the handlers and the PDF extractor hold while a single function runs
handlerVars == <<resumes_db, origin, usedIds, deleted, resp, calls, lastReq,
                 OCR_AVAILABLE, pdfIn, pdfOut, tasks, running>>

AtRest ==
    /\ resumes_db = <<>>
    /\ origin = <<>>
    /\ usedIds = {}
    /\ deleted = {}
    /\ resp = NoResponse
    /\ calls = <<>>
    /\ lastReq = Served("none", 0, 0)
    /\ OCR_AVAILABLE = TRUE
    /\ pdfIn = [pdf |-> CHOOSE p \in Pdfs : TRUE, use_ocr |-> FALSE]
    /\ pdfOut = Idle
    /\ tasks = NoTasks
    /\ running = 0

(* src/services/ai_service.py: enhance_with_ai *)

\* str(x) of an item of experience or education: a text is itself, a dict
\* is printed with its braces
PyRepr(x) == IF IsStr(x) THEN x.v ELSE <<"{", "}">>

\* combined_text of enhance_with_ai; Raises where a listed field cannot be
\* iterated or joined
CombinedText(d) ==
    LET Strs(key) == [i \in 1..Len(d.v[key].v) |-> PyRepr(d.v[key].v[i])]
        Listed(key, lead, sep) ==
            IF key \notin DOMAIN d.v THEN <<>>
            ELSE lead \o Join(Strs(key), sep) \o <<"\n">>
        Joinable(key, Item(_)) ==
            key \in DOMAIN d.v =>
                /\ IsList(d.v[key])
                /\ \A i \in 1..Len(d.v[key].v) : Item(d.v[key].v[i])
    IN IF ~(/\ Joinable("experience", LAMBDA x : TRUE)
            /\ Joinable("education", LAMBDA x : TRUE)
            /\ Joinable("skills", IsStr))
       THEN Raises
       ELSE PyStr(
              (IF "summary" \in DOMAIN d.v /\ IsStr(d.v["summary"])
               THEN d.v["summary"].v \o <<"\n">> ELSE <<>>)
              \o Listed("experience", <<>>, <<" ">>)
              \o Listed("education", <<>>, <<" ">>)
              \o Listed("skills", <<"S","k","i","l","l","s",":"," ">>, <<",", " ">>))

\* the text enhance_with_ai puts in place of an empty combined_text
Placeholder ==
    <<"This resume contains structured information but no text summary.">>

\* LightweightAIService.enhance_with_ai up to the call of the model: the text
\* it asks the model to summarize, Raises where it raises
enhance_with_ai(text_or_dict) ==
    LET Chosen(combined) ==
            IF IsRaise(combined) THEN Raises
            ELSE IF Len(Strip(combined.v)) > 0 THEN combined
            ELSE PyStr(Placeholder)
    IN IF IsDict(text_or_dict) THEN Chosen(CombinedText(text_or_dict))
       ELSE IF IsStr(text_or_dict) THEN text_or_dict
       ELSE Raises

\* the dicts enhance_with_ai is given: any of the four fields absent, empty
\* or filled, the summary also null
EnhKeys == {"summary", "experience", "education", "skills"}

EnhValues(key) ==
    CASE key = "summary" -> {PyStr(<<>>), PyStr(<<"Q", "A">>), PyNone}
      [] key = "skills" -> {PyList(<<>>), PyList(<<PyStr(<<"G", "o">>)>>)}
      [] OTHER -> {PyList(<<>>), PyList(<<EmptyDict>>)}

EnhInputs ==
    {PyDict(f) : f \in UNION {{g \in [K -> UNION {EnhValues(k) : k \in K}] :
                                  \A k \in K : g[k] \in EnhValues(k)} :
                               K \in SUBSET EnhKeys}}

InitEnh ==
    /\ AtRest
    /\ arg \in EnhInputs
    /\ ret = NotCalled

Enhance ==
    /\ ret = NotCalled
    /\ ret' = enhance_with_ai(arg)
    /\ UNCHANGED <<handlerVars, arg>>

SpecEnh == InitEnh /\ [][Enhance]_vars

(* upload_resume from the extension guard to the dispatch of _extract_text *)

\* how many pieces a filename is put together from
MaxParts == 3

\* the pieces: the extensions of the allow-list, two of them in upper case
\* and one outside the list, and a dot, a slash, a space and a letter
Pieces ==
    {Ext(e) : e \in {"pdf", "docx", "doc", "txt", "jpg", "jpeg", "png"}}
    \cup {<<"P","D","F">>, <<"T","x","t">>, <<"x","l","s","x">>}
    \cup {<<".">>, <<"/">>, <<" ">>, <<"a">>}

RECURSIVE FileNames(_)
FileNames(n) ==
    IF n = 0 THEN {<<>>}
    ELSE LET Longer(shorter) ==
                 shorter \cup {s \o piece : s \in shorter, piece \in Pieces}
         IN Longer(FileNames(n - 1))

InitGuard ==
    /\ AtRest
    /\ arg \in FileNames(MaxParts)
    /\ ret = NotCalled

\* resumes.py 144-170 and parser_service.py 51 for a text file of that name:
\* the guard, then sanitize_filename and _extract_text if it lets the name pass
GuardAndDispatch ==
    /\ ret = NotCalled
    /\ ret' = IF validate_file_extension(arg, ALLOWED_EXTENSIONS)
              THEN [t |-> "dispatched",
                    v |-> _extract_text(File(arg, 400, TxtContent(FullText)),
                                        sanitize_filename(arg), EmptyDict,
                                        OCR_AVAILABLE)]
              ELSE [t |-> "rejected", v |-> <<>>]
    /\ UNCHANGED <<handlerVars, arg>>

SpecGuard == InitGuard /\ [][GuardAndDispatch]_vars

(* src/services/parser_service.py: _post_process *)

Absent == [t |-> "absent", v |-> <<>>]

\* the dict d with d[key] = x, or d itself where the key is to be absent
With(d, key, x) == IF x.t = "absent" THEN d ELSE Put(d, key, x)

PyInt(n) == [t |-> "int", v |-> n]

Date201801 == <<"2","0","1","8","-","0","1">>

Date202001 == <<"2","0","2","0","-","0","1">>

\* the contact of a profile: missing, null, empty, well-formed, malformed,
\* and with an email that is no text
PostContacts ==
    {Absent, PyNone, EmptyDict,
     PyDict([email |-> PyStr(EmailAB),
             phone |-> PyStr(<<"+","1","2","3","4","5","6","7">>)]),
     PyDict([email |-> PyStr(<<"a","@">>), phone |-> PyStr(<<"1","2">>)]),
     PyDict([email |-> PyInt(7)])}

PostPersonalInfos ==
    {Absent, PyNone}
    \cup {With(PyDict([name |-> PyStr(<<"A","l">>)]), "contact", c) :
             c \in PostContacts}

\* no experience, an empty list, or one entry whose dates are missing, null,
\* a year-month text or a number
PostExperiences ==
    {Absent, PyList(<<>>)}
    \cup {PyList(<<With(With(EmptyDict, "startDate", start), "endDate", end)>>) :
             start \in {Absent, PyNone, PyStr(Date201801), PyInt(2018)},
             end \in {Absent, PyNone, PyStr(Date202001), PyInt(2020)}}

PostSummaries ==
    {Absent, PyNone, PyStr(<<>>), PyStr(<<"Q","A">>), EmptyDict,
     PyDict([text |-> PyStr(<<"Q","A">>)]), PyList(<<PyStr(<<"Q","A">>)>>)}

PostInputs ==
    {With(With(With(PyDict([skills |-> PyList(<<PyStr(Python)>>),
                            education |-> PyList(<<>>),
                            metadata |-> PyDict([fileName |-> PyStr(CvTxt)])]),
                    "personalInfo", pi), "experience", exps), "summary", summary) :
       pi \in PostPersonalInfos, exps \in PostExperiences,
       summary \in PostSummaries}

InitPost ==
    /\ AtRest
    /\ arg \in PostInputs
    /\ ret = NotCalled

PostProcess ==
    /\ ret = NotCalled
    /\ ret' = _post_process(arg, Clock)
    /\ UNCHANGED <<handlerVars, arg>>

SpecPost == InitPost /\ [][PostProcess]_vars

\* _post_process called on the profile it returned
PostProcessAgain ==
    /\ IsDict(ret)
    /\ calls = <<>>
    /\ arg' = ret
    /\ ret' = _post_process(ret, Clock)
    /\ calls' = <<"_post_process", "_post_process">>
    /\ UNCHANGED <<resumes_db, origin, usedIds, deleted, resp, lastReq,
                   OCR_AVAILABLE, pdfIn, pdfOut, tasks, running>>

SpecTwice == InitPost /\ [][PostProcess \/ PostProcessAgain]_vars

(* src/services/parser_service.py: parse_resume, steps 5 and 6 *)

\* what LightweightAIService.parse_resume returns for short resumes
StructuredInputs ==
    {ai_parse_resume(text, summary, order) :
       text \in {ResumeText(name, email, <<"\n">>, FALSE, skills, 0) :
                   name \in BOOLEAN,
                   email \in {<<>>, EmailAB, <<"a","@","b">>},
                   skills \in {<<>>, Python, PythonSql}},
       summary \in {<<>>, <<"s">>, <<"Q","A">>},
       order \in UNION {Orderings(SkillsFrom(ResumeText(FALSE, <<>>, <<>>, FALSE,
                                                         skills, 0), 1)) :
                          skills \in {<<>>, Python, PythonSql}}}

\* {"metadata": .., "rawText": .., **structured_data, "aiEnhancements": ..}:
\* a new dict; under the keys of structured_data it holds the very objects
\* structured_data holds
complete_data(structured_data) ==
    Put(Update(PyDict([metadata |-> EmptyDict, rawText |-> PyStr(<<>>)]),
               structured_data),
        "aiEnhancements", EmptyDict)

\* structured_data as it reads once _post_process has run on complete_data:
\* an item assignment below a key writes into the object both dicts hold,
\* unless the key was bound to a new object in complete_data first, as is a
\* summary that is no dict
StructuredAfter(structured_data, now) ==
    LET Seen(nested) ==
            IF IsRaise(nested) THEN Raises
            ELSE PyDict([key \in DOMAIN structured_data.v |->
                           IF key = "summary" /\ ~IsDict(structured_data.v[key])
                           THEN structured_data.v[key]
                           ELSE nested.v[key]])
    IN Seen(BeforeFlatten(complete_data(structured_data), now))

InitCombine ==
    /\ AtRest
    /\ arg \in StructuredInputs
    /\ ret = NotCalled

\* arg is structured_data when the structurer returns it; ret holds what
\* parse_resume returns and what structured_data has become by then
Combine ==
    /\ ret = NotCalled
    /\ ret' = [t |-> "combined",
               v |-> [returned |-> _post_process(complete_data(arg), Clock),
                      structured_data |-> StructuredAfter(arg, Clock)]]
    /\ UNCHANGED <<handlerVars, arg>>

SpecCombine == InitCombine /\ [][Combine]_vars

(* src/services/parser_service.py: _calculate_total_experience *)

MaxEntries == 2

ExpDates ==
    {[year |-> 2018, month |-> 1], [year |-> 2019, month |-> 6],
     [year |-> 2020, month |-> 1], [year |-> 2021, month |-> 11]}

\* an experience entry; the end is Absent for a position still held
ExpEntry(start, end) == With(PyDict([startDate |-> PyStr(start)]), "endDate", end)

\* entries whose dates are year-month texts
DatedEntries ==
    {ExpEntry(YearMonth(start), end) :
       start \in ExpDates,
       end \in {Absent} \cup {PyStr(YearMonth(d)) : d \in ExpDates}}

\* entries with a start or an end that int() does not take
UndatedEntries ==
    {ExpEntry(<<"n","o","t","-","a","-","d","a","t","e">>, Absent),
     ExpEntry(<<"2","0","1","8","-","x","x">>, PyStr(Date202001)),
     ExpEntry(Date201801, PyStr(<<"p","r","e","s","e","n","t">>))}

ExpInputs ==
    {PyList(entries) :
       entries \in UNION {[1..n -> DatedEntries \cup UndatedEntries] :
                            n \in 0..MaxEntries}}

InitExp ==
    /\ AtRest
    /\ arg \in ExpInputs
    /\ ret = NotCalled

CalculateTotal ==
    /\ ret = NotCalled
    /\ ret' = _calculate_total_experience(arg, Clock)
    /\ UNCHANGED <<handlerVars, arg>>

SpecExp == InitExp /\ [][CalculateTotal]_vars

-----------------------------------------------------------------------------
(* The match scorer, POST /resumes/{id}/match. src/api/routes/matching.py is
   not among the sources: match follows the contract of the specification,
   section 4.4, and the handler follows tests/test_api.py, 187-245 *)

\* jobDescription.skills of the requests sent
JobDescriptions ==
    << [required |-> <<Python, <<"J","a","v","a">> >>, preferred |-> << <<"S","Q","L">> >>],
       [required |-> <<Python>>, preferred |-> <<>>],
       [required |-> <<>>, preferred |-> << <<"S","Q","L">>, Python >>],
       [required |-> << <<"J","a","v","a">> >>, preferred |-> << <<"C","+","+">> >>] >>

\* the share of the score that the required skills carry, in percent; the
\* preferred skills carry the rest
RequiredWeight == 70

\* the skills of a list, compared without regard to case
SkillSet(q) == {Lower(q[i]) : i \in 1..Len(q)}

\* how many percent of the wanted skills the profile has
Share_CountsAll(have, wanted) ==
    IF wanted = {} THEN 100
    ELSE (100 * Cardinality(have)) \div Cardinality(wanted)

Share(have, wanted) ==
    IF wanted = {} THEN 100
    ELSE (100 * Cardinality(have \cap wanted)) \div Cardinality(wanted)

\* match(profile, jobDescription, options) -> MatchResult; the options add
\* the breakdown and leave the numbers as they are
match(profile, jobDescription, options) ==
    LET have == SkillSet([i \in 1..Len(profile.v["skills"].v) |->
                            profile.v["skills"].v[i].v])
        required == Share(have, SkillSet(jobDescription.required))
        preferred == Share(have, SkillSet(jobDescription.preferred))
        filled == {f \in {"skills", "work_experience", "education"} :
                     profile.v[f].v # <<>>}
        result ==
            PyDict([overallScore |->
                        PyInt((RequiredWeight * required
                               + (100 - RequiredWeight) * preferred) \div 100),
                    confidence |-> PyFloat(Cardinality(filled), 3)])
    IN IF options.detailedBreakdown
       THEN Put(result, "categoryScores",
                PyDict([requiredSkills |-> PyInt(required),
                        preferredSkills |-> PyInt(preferred)]))
       ELSE result

\* POST /resumes/{id}/match with job description number j
match_resume(id, j, options) ==
    /\ resp' = IF id \notin DOMAIN resumes_db
               THEN ErrorResponse("match", id, NotFound)
               ELSE Response("match", id, 200,
                             PyDict([matchId |-> [t |-> "id", v |-> j],
                                     matchingResults |->
                                         match(resumes_db[id].data,
                                               JobDescriptions[j], options)]))
    /\ calls' = <<>>
    /\ lastReq' = Served("match", id, j)
    /\ UNCHANGED <<resumes_db, origin, usedIds, deleted, OCR_AVAILABLE, pdfIn,
                   pdfOut, arg, ret, tasks, running>>

\* the uploads sent under SpecMatch: profiles with one skill, none and two
MatchUploads == {1, 3, 5}

UploadProfile == \E k \in MatchUploads : upload_resume(k) /\ UNCHANGED <<tasks, running>>

MatchResume ==
    \E id \in Ids, j \in 1..Len(JobDescriptions), detailed \in BOOLEAN :
       match_resume(id, j, [detailedBreakdown |-> detailed])

SpecMatch == InitLoop /\ [][UploadProfile \/ MatchResume]_vars

-----------------------------------------------------------------------------
(* Claims about the routes of resumes.py, checked under Spec *)

\* C1, as stated: for an identifier that is not a key of the store, get and
\* delete each answer 404 NotFound and leave the store unchanged.
C1_AbsentIdIsNotFound ==
    [][\A id \in Ids :
          (id \notin DOMAIN resumes_db /\ (get_resume(id) \/ delete_resume(id)))
              => (resp'.code = 404 /\ resumes_db' = resumes_db)]_vars

\* C2, as stated: delete of a present identifier removes that key and leaves
\* every other record as it was, and a later get of a deleted identifier
\* never returns the record and answers 404 NotFound.
C2_DeletedStaysGone ==
    [][\A id \in Ids :
          /\ (id \in DOMAIN resumes_db /\ delete_resume(id)) =>
                /\ id \notin DOMAIN resumes_db'
                /\ DOMAIN resumes_db' = DOMAIN resumes_db \ {id}
                /\ \A j \in DOMAIN resumes_db' : resumes_db'[j] = resumes_db[j]
          /\ (id \in deleted /\ get_resume(id)) =>
                /\ id \notin DOMAIN resumes_db
                /\ resp'.code # 200
                /\ resp'.code = 404]_vars

\* a get has just been answered for an identifier whose record is stored
GotStored == lastReq.op = "get" /\ lastReq.id \in DOMAIN resumes_db

\* the upload that stored the record the last get asked for
Uploaded == UploadInputs[origin[lastReq.id]]

\* C3, as stated: get on the identifier of an accepted upload succeeds and
\* the data it returns has the key 'personalInfo' or the key 'metadata'.
C3_GetReturnsNestedProfile ==
    GotStored =>
        /\ resp.code = 200
        /\ IsDict(resp.body)
        /\ ("personalInfo" \in DOMAIN resp.body.v \/ "metadata" \in DOMAIN resp.body.v)

IsPlainTextUpload(req) ==
    /\ LastDotPart(req.file.filename) = <<"t","x","t">>
    /\ req.file.content.bytes # Binary

\* the places of a returned profile where a total of years may be carried
TotalYearsOf(body) ==
    LET top == IF "totalYearsOfExperience" \in DOMAIN body.v
               THEN {body.v["totalYearsOfExperience"]} ELSE {}
        summary == IF "summary" \in DOMAIN body.v THEN body.v["summary"]
                   ELSE PyNone
        career == IF IsDict(summary) /\ "careerSummary" \in DOMAIN summary.v
                  THEN summary.v["careerSummary"] ELSE PyNone
        nested == IF IsDict(career)
                     /\ "totalYearsOfExperience" \in DOMAIN career.v
                  THEN {career.v["totalYearsOfExperience"]} ELSE {}
    IN top \cup nested

\* C4, as stated: the profile got back for a plain-text resume with a dated
\* experience entry carries a totalYearsOfExperience greater than 0.
C4_TotalYearsPositive ==
    (GotStored /\ IsPlainTextUpload(Uploaded) /\ Uploaded.truth.dated) =>
        /\ resp.code = 200
        /\ \E y \in TotalYearsOf(resp.body) : y.t = "float" /\ y.v > 0

\* C5, as stated: the profile got back for a plain-text resume whose text
\* holds an email address has a non-empty contact_info.email equal to it.
C5_EmailRoundTrip ==
    (GotStored /\ IsPlainTextUpload(Uploaded) /\ Uploaded.truth.email # <<>>) =>
        /\ resp.code = 200
        /\ "contact_info" \in DOMAIN resp.body.v
        /\ IsDict(resp.body.v["contact_info"])
        /\ "email" \in DOMAIN resp.body.v["contact_info"].v
        /\ IsStr(resp.body.v["contact_info"].v["email"])
        /\ resp.body.v["contact_info"].v["email"].v # <<>>
        /\ resp.body.v["contact_info"].v["email"].v = Uploaded.truth.email

\* an upload has just been answered
Uploading == lastReq.op = "upload"

UploadedFile == UploadInputs[lastReq.k].file

\* the extension of a filename as its reader sees it: what follows the last
\* dot, in lower case; nothing when there is no dot
ExtensionOf(filename) ==
    IF RFind(filename, ".") = 0 THEN <<>> ELSE LastDotPart(filename)

OutsideAllowList(filename) ==
    ExtensionOf(filename) \notin
        { <<"p","d","f">>, <<"d","o","c","x">>, <<"d","o","c">>, <<"t","x","t">>,
          <<"j","p","g">>, <<"j","p","e","g">>, <<"p","n","g">> }

\* C6, as stated: an upload whose extension is outside the allow-list is
\* answered 415, whatever its content.
C6_BadExtensionIs415 ==
    (Uploading /\ OutsideAllowList(UploadedFile.filename)) => resp.code = 415

\* C6, amended: an upload of at most MAX_FILE_SIZE bytes whose extension is
\* outside the allow-list is answered 415 UNSUPPORTED_FORMAT, whatever its
\* content.
C6_BadExtensionWithinSizeIs415 ==
    (Uploading /\ OutsideAllowList(UploadedFile.filename)
        /\ UploadedFile.size <= 5 * 1024 * 1024) =>
        /\ resp.code = 415
        /\ resp.body = PyDict([detail |-> PyStr(<<"UNSUPPORTED_FORMAT">>)])

\* C6 witness: a file of allowed size with a disallowed extension was
\* uploaded and answered 415.
C6_Witness ==
    /\ Uploading
    /\ UploadedFile.filename = CvXlsx
    /\ UploadedFile.size = 5 * 1024 * 1024
    /\ resp.code = 415

\* C7: the pipeline is called only after the size guard and then the
\* extension guard have passed; a file over MAX_FILE_SIZE is answered 413
\* FILE_TOO_LARGE and a file with a disallowed extension is rejected, both
\* without a call to the pipeline or a write to the store; a file of exactly
\* MAX_FILE_SIZE bytes passes the size guard.
C7_GuardsBeforePipeline ==
    [][\A k \in 1..Len(UploadInputs) :
          upload_resume(k) =>
            LET file == UploadInputs[k].file
                tooLarge == file.size > 5 * 1024 * 1024
                badExt == OutsideAllowList(file.filename)
                untouched == /\ "parse_resume" \notin Range(calls')
                             /\ "put" \notin Range(calls')
                             /\ resumes_db' = resumes_db
            IN /\ "parse_resume" \in Range(calls') =>
                     /\ SubSeq(calls', 1, 3) = <<"validate_file_size",
                                                 "validate_file_extension",
                                                 "parse_resume">>
                     /\ ~tooLarge /\ ~badExt
               /\ tooLarge =>
                     /\ resp'.code = 413
                     /\ resp'.body = PyDict([detail |-> PyStr(<<"FILE_TOO_LARGE">>)])
                     /\ untouched
               /\ badExt => resp'.code \in {413, 415} /\ untouched
               /\ file.size = 5 * 1024 * 1024 =>
                     /\ Len(calls') >= 2
                     /\ calls'[2] = "validate_file_extension"
                     /\ resp'.code # 413]_vars

\* C7 witness: a file of exactly MAX_FILE_SIZE bytes went through both guards
\* and the pipeline and was stored.
C7_Witness ==
    /\ Uploading
    /\ UploadedFile.size = 5 * 1024 * 1024
    /\ resp.code = 202
    /\ "parse_resume" \in Range(calls)
    /\ lastReq.id \in DOMAIN resumes_db

\* C26: an upload that is not answered 202 leaves the store as it was and the
\* identifier drawn for it is no key of the store; a key enters the store only
\* in the step of an upload answered 202, as the last call of that upload, and
\* it is an identifier not handed out before
C26_FailedUploadLeavesStore ==
    [][/\ (resp'.op = "upload" /\ resp'.code # 202) =>
            /\ resumes_db' = resumes_db
            /\ lastReq'.id \notin DOMAIN resumes_db'
       /\ (DOMAIN resumes_db' \ DOMAIN resumes_db # {}) =>
            /\ resp'.op = "upload" /\ resp'.code = 202
            /\ calls'[Len(calls')] = "put"
            /\ DOMAIN resumes_db' \ DOMAIN resumes_db = {lastReq'.id}
            /\ lastReq'.id \notin usedIds]_vars

\* an upload has failed in enhance_with_ai, after an identifier was drawn for
\* it, while the store held a record
C26_Witness ==
    /\ resp.op = "upload" /\ resp.code = 500
    /\ lastReq.op = "upload" /\ lastReq.id \in Ids
    /\ UploadInputs[lastReq.k].llm = LlmFailsSecond
    /\ resumes_db # <<>>

-----------------------------------------------------------------------------
(* Claims about extract_text_from_pdf, checked under SpecPdf *)

PdfDone == pdfOut.outcome # "idle"

Attempted(m) == m \in Range(pdfOut.calls)

\* the text a method yields for the PDF at hand
YieldOf(m) ==
    CASE m = "pdfplumber" -> _extract_with_pdfplumber(pdfIn.pdf)
      [] m = "pypdf2" -> _extract_with_pypdf2(pdfIn.pdf)
      [] m = "ocr" -> _extract_with_ocr(pdfIn.pdf, OCR_AVAILABLE)

TrimLen(text) == Len(Strip(text))

MethodOrder == <<"pdfplumber", "pypdf2", "ocr">>

\* C8, as stated: OCR is never invoked when a non-OCR method yielded at least
\* 100 trimmed characters, exactly 100 included.
C8_NoOcrFrom100 ==
    PdfDone =>
        ((TrimLen(YieldOf("pdfplumber")) >= 100 \/ TrimLen(YieldOf("pypdf2")) >= 100)
            => ~Attempted("ocr"))

\* C8, amended: OCR is never invoked when a non-OCR method yielded more than
\* 100 trimmed characters.
C8_NoOcrAbove100 ==
    PdfDone =>
        ((TrimLen(YieldOf("pdfplumber")) > 100 \/ TrimLen(YieldOf("pypdf2")) > 100)
            => ~Attempted("ocr"))

\* C8 witness: OCR was asked for and available, the structured method fell
\* short, the generic method yielded more than 100, and the extractor ran.
C8_Witness ==
    /\ PdfDone
    /\ pdfIn.use_ocr /\ OCR_AVAILABLE
    /\ TrimLen(YieldOf("pdfplumber")) = 100
    /\ TrimLen(YieldOf("pypdf2")) > 100
    /\ TrimLen(YieldOf("ocr")) > 100
    /\ pdfOut.calls = <<"pdfplumber", "pypdf2">>

\* C9: the methods are attempted in the order structured, generic, OCR, each
\* at most once; a later method only if no earlier one exceeded 100 trimmed
\* characters; a method that exceeds 100 is the last attempted and its text
\* is what is returned; OCR only if performOCR is true.
C9_FallbackOrder ==
    PdfDone =>
        /\ Len(pdfOut.calls) \in 1..3
        /\ pdfOut.calls = SubSeq(MethodOrder, 1, Len(pdfOut.calls))
        /\ \A j \in 1..Len(pdfOut.calls) :
              /\ \A i \in 1..(j - 1) : TrimLen(YieldOf(pdfOut.calls[i])) <= 100
              /\ TrimLen(YieldOf(pdfOut.calls[j])) > 100 =>
                    /\ j = Len(pdfOut.calls)
                    /\ pdfOut.outcome = "return"
                    /\ pdfOut.text = YieldOf(pdfOut.calls[j])
        /\ Attempted("ocr") => pdfIn.use_ocr

\* C9 witness: all three methods were attempted and OCR's text, longer than
\* 100, was returned.
C9_Witness ==
    /\ PdfDone
    /\ pdfOut.calls = MethodOrder
    /\ pdfOut.outcome = "return"
    /\ TrimLen(pdfOut.text) > 100
    /\ TrimLen(YieldOf("pdfplumber")) = 100

\* C10, as stated: whenever an attempted method yielded 50 or more trimmed
\* characters, the extractor returns non-empty text instead of failing.
C10_FailsOnlyIfNoneReached50 ==
    PdfDone =>
        ((\E j \in 1..Len(pdfOut.calls) : TrimLen(YieldOf(pdfOut.calls[j])) >= 50)
            => pdfOut.outcome = "return" /\ Len(pdfOut.text) > 0)

-----------------------------------------------------------------------------
(* Claims about extraction and structuring within an upload, checked under
   Spec *)

\* the last upload passed both guards and reached the pipeline
Parsing == Uploading /\ "parse_resume" \in Range(calls)

\* the text the extraction step of an upload read from the file, given the
\* calls the upload made: of a PDF the text of the method attempted last; no
\* text where the container could not be opened or no reader was called
TextReadOf(file, made) ==
    LET c == file.content IN
    CASE "decode" \in Range(made) -> {Decode(c.bytes)}
      [] "docx" \in Range(made) /\ c.docx.ok ->
            {Strip(Join(c.docx.pages, <<"\n">>))}
      [] "image_ocr" \in Range(made) -> {c.img.pages[1]}
      [] "ocr" \in Range(made) -> {PageText(c.pdf.ocr)}
      [] "pypdf2" \in Range(made) -> {PageText(c.pdf.pypdf)}
      [] "pdfplumber" \in Range(made) -> {PageText(c.pdf.plumber)}
      [] OTHER -> {}

TextRead == TextReadOf(UploadedFile, calls)

\* the messages of the error the last upload was answered with
ErrorMessages ==
    IF IsDict(resp.body) /\ "detail" \in DOMAIN resp.body.v
    THEN Range(resp.body.v["detail"].v) ELSE {}

\* C11: whatever the supported extension, when the text read from the file
\* has fewer than 50 trimmed characters the upload fails with the
\* insufficient-text error, the language model is not called and no profile
\* is stored.
C11_ShortTextFailsBeforeStructuring ==
    (Parsing /\ \E t \in TextRead : TrimLen(t) < 50) =>
        /\ resp.code # 202
        /\ ErrorMessages \cap
              {"Could not extract sufficient text from document",
               "Could not extract sufficient text from PDF",
               "Could not extract sufficient text from image"} # {}
        /\ "generate_summary" \notin Range(calls)
        /\ "put" \notin Range(calls)
        /\ lastReq.id \notin DOMAIN resumes_db

\* C11 witness: a .doc file whose paragraphs hold 20 characters was read and
\* refused.
C11_Witness ==
    /\ Parsing
    /\ ExtensionOf(UploadedFile.filename) = <<"d","o","c">>
    /\ TextRead = {X(20)}
    /\ resp.code = 500

\* the last upload was of an image, by its extension
ImageUploaded ==
    Parsing /\ ExtensionOf(UploadedFile.filename) \in
                  {<<"j","p","g">>, <<"j","p","e","g">>, <<"p","n","g">>}

\* C12: an image uploaded with performOCR false always fails with the error
\* that OCR is required but disabled, whatever the image holds, and neither
\* the image is opened nor the OCR engine invoked; with the option left out
\* OCR is on, so a readable image goes to the OCR engine.
C12_ImageNeedsOcr ==
    /\ (ImageUploaded /\ UploadInputs[lastReq.k].options = NoOcr) =>
          /\ resp.code # 202
          /\ "OCR is required for image files but was disabled" \in ErrorMessages
          /\ "Image.open" \notin Range(calls)
          /\ "image_ocr" \notin Range(calls)
          /\ lastReq.id \notin DOMAIN resumes_db
    /\ (ImageUploaded /\ UploadInputs[lastReq.k].options = NoOptions
           /\ OCR_AVAILABLE /\ UploadedFile.content.img.ok) =>
          "image_ocr" \in Range(calls)

\* C12 witness: a .jpeg that no library can open, uploaded with performOCR
\* false, was refused for the disabled OCR.
C12_Witness ==
    /\ ImageUploaded
    /\ UploadInputs[lastReq.k].options = NoOcr
    /\ ~UploadedFile.content.img.ok
    /\ resp.code = 500
    /\ "OCR is required for image files but was disabled" \in ErrorMessages

ImageExtensions == {<<"j","p","g">>, <<"j","p","e","g">>, <<"p","n","g">>}

\* why upload number k fails on the way to its text, "none" where it does
\* not or where the reason is none of the four
ReasonOf(k) ==
    LET file == UploadInputs[k].file
        made == Outcomes[OCR_AVAILABLE][k].calls
    IN CASE Outcomes[OCR_AVAILABLE][k].code = 202 -> "none"
         [] file.size > 5 * 1024 * 1024 -> "none"
         [] OutsideAllowList(file.filename) -> "UnsupportedFormat"
         [] ExtensionOf(file.filename) \in ImageExtensions
              /\ UploadInputs[k].options = NoOcr -> "ConfigurationError"
         [] \E t \in TextReadOf(file, made) : TrimLen(t) < 50 -> "InsufficientText"
         [] \/ "docx" \in Range(made) /\ ~file.content.docx.ok
            \/ "Image.open" \in Range(made) /\ ~file.content.img.ok ->
              "ExtractionError"
         [] OTHER -> "none"

\* what a program reading a response can branch on: the status code and,
\* for the dict the guards put in the detail, its "error" code; the detail of
\* a 500 is the text str(e)
ReasonCode(code, body) ==
    <<code, IF code \in {413, 415} THEN body.v["detail"].v ELSE <<>> >>

\* C13, as stated: uploads that fail for different reasons among
\* UnsupportedFormat, ConfigurationError, InsufficientText and ExtractionError
\* are answered with different machine-readable reasons.
C13_ReasonsDistinguished ==
    \A k \in 1..Len(UploadInputs) :
        (Uploading /\ ReasonOf(lastReq.k) # "none" /\ ReasonOf(k) # "none"
           /\ ReasonOf(k) # ReasonOf(lastReq.k)) =>
            ReasonCode(resp.code, resp.body) #
                ReasonCode(Outcomes[OCR_AVAILABLE][k].code,
                           Outcomes[OCR_AVAILABLE][k].body)

\* the language model raises in a call the last upload makes: in
\* structuring, or in the enhancement when that is on
ModelFailed ==
    LET req == UploadInputs[lastReq.k] IN
    /\ Parsing
    /\ "generate_summary" \in Range(calls)
    /\ \/ IsRaise(req.llm.parse)
       \/ /\ req.options # NoEnhance
          /\ IsRaise(req.llm.enhance)

\* C14, as stated: when the language model raises during structuring or
\* enhancement the upload still succeeds: it is answered 202 and the stored
\* profile carries the name, email and skills the regular expressions found.
C14_ModelFailureDegrades ==
    ModelFailed =>
        /\ resp.code = 202
        /\ lastReq.id \in DOMAIN resumes_db
        /\ {"name", "contact_info", "skills"} \subseteq
              DOMAIN resumes_db[lastReq.id].data.v
        /\ resumes_db[lastReq.id].data.v["contact_info"].v["email"].v =
              UploadInputs[lastReq.k].truth.email


-----------------------------------------------------------------------------
(* Claims about enhance_with_ai, checked under SpecEnh *)

\* the function under check has been called
Called == ret.t # "idle"

\* the field carries no textual signal: absent, an empty string, an empty list
NoSignal(d, key) ==
    key \notin DOMAIN d.v \/ d.v[key] \in {PyStr(<<>>), PyList(<<>>)}

\* C15: enhance_with_ai raises for no dict whose four fields are absent or of
\* their own type, and whenever none of the four fields carries textual signal
\* the text it asks the model to summarize is the placeholder
C15_PlaceholderWithoutSignal ==
    Called =>
        /\ (\A key \in DOMAIN arg.v : arg.v[key] # PyNone) => ~IsRaise(ret)
        /\ (\A key \in EnhKeys : NoSignal(arg, key)) => ret = PyStr(Placeholder)

-----------------------------------------------------------------------------
(* Claims about _post_process, checked under SpecPost *)

\* the contact of the profile, an empty dict where there is none to read
ContactIn(profile) ==
    LET pi == Get(profile, "personalInfo", EmptyDict)
    IN IF IsDict(pi) /\ IsDict(Get(pi, "contact", EmptyDict))
       THEN Get(pi, "contact", EmptyDict) ELSE EmptyDict

\* the field of the contact is a text that is not empty, and the returned
\* profile holds it unchanged next to the flag, which tells whether it is valid
Flagged(field, flag, valid) ==
    LET given == Get(ContactIn(arg), field, PyNone) IN
    (IsStr(given) /\ Truthy(given)) =>
        /\ Get(ContactIn(ret), field, PyNone) = given
        /\ Get(ContactIn(ret), flag, PyNone) = PyBool(valid)

\* C16: _post_process returns a profile and never raises, whatever the
\* personalInfo, contact, experience dates and summary of its argument; a
\* malformed email or phone is kept and flagged as not valid
C16_PostProcessTotal ==
    Called =>
        /\ IsDict(ret)
        /\ Flagged("email", "emailValid",
                   validate_email(Get(ContactIn(arg), "email", PyNone).v))
        /\ Flagged("phone", "phoneValid",
                   validate_phone(Get(ContactIn(arg), "phone", PyNone).v))

\* _post_process has returned a profile
ProfileReturned == Called /\ IsDict(ret)

\* C19: in the profile _post_process returns, summary is a dict; a summary
\* given as a text s is returned as a dict whose text is s, and a summary
\* given as neither a text nor a dict is returned as a dict without a text
C19_SummaryIsObject ==
    ProfileReturned =>
        LET given == Get(arg, "summary", Absent)
            summary == Get(ret, "summary", Absent)
        IN /\ IsDict(summary)
           /\ IsStr(given) => Get(summary, "text", Absent) = given
           /\ (~IsStr(given) /\ ~IsDict(given)) => "text" \notin DOMAIN summary.v

\* C20: the flatten step only adds keys: every key the profile holds before
\* the step holds the same value in the profile _post_process returns, the
\* summary with its totalYearsOfExperience among them
C20_FlattenOnlyAdds ==
    ProfileReturned =>
        LET before == BeforeFlatten(arg, Clock) IN
        /\ DOMAIN before.v \subseteq DOMAIN ret.v
        /\ \A key \in DOMAIN before.v : ret.v[key] = before.v[key]
        /\ "totalYearsOfExperience" \in DOMAIN before.v["summary"].v

\* _post_process has run on its own result: arg is the first result, ret
\* the second
CalledTwice == Len(calls) = 2

-----------------------------------------------------------------------------
(* Claims about steps 5 and 6 of parse_resume, checked under SpecCombine *)

DerivedContactFields == {"emailValid", "phoneValid"}

\* C22: once parse_resume has returned, the dict the structurer returned is
\* what it was when it was returned, its contact included: neither
\* emailValid nor phoneValid is found in that contact
C22_StructuredUntouched ==
    Called =>
        LET structured_data == ret.v.structured_data IN
        /\ structured_data = arg
        /\ DOMAIN structured_data.v["personalInfo"].v["contact"].v
             \cap DerivedContactFields = {}

-----------------------------------------------------------------------------
(* Claims about _calculate_total_experience, checked under SpecExp *)

MonthsOf(date) == date.year * 12 + date.month

\* the year-month a text of a dated entry stands for
DateRead(text) == CHOOSE d \in ExpDates : YearMonth(d) = text

\* max(0, months(end) - months(start)) of a dated entry
Worked(entry) ==
    LET start == MonthsOf(DateRead(entry.v["startDate"].v))
        end == IF "endDate" \in DOMAIN entry.v
               THEN MonthsOf(DateRead(entry.v["endDate"].v))
               ELSE MonthsOf(Clock)
    IN IF end > start THEN end - start ELSE 0

RECURSIVE SumWorked(_)
SumWorked(entries) ==
    IF Len(entries) = 0 THEN 0
    ELSE Worked(entries[1]) + SumWorked(Tail(entries))

AllDated == \A i \in 1..Len(arg.v) : arg.v[i] \in DatedEntries

SixYears ==
    PyList(<<ExpEntry(Date201801, PyStr(Date202001)), ExpEntry(Date202001, Absent)>>)

\* C17: over entries dated in year-months the total is the sum of
\* max(0, months(end) - months(start)), the end being the current year-month
\* where there is none, divided by 12 and rounded to one decimal; 2018-01 to
\* 2020-01 followed by 2020-01 to now gives 6.0 in 2024-01
C17_TotalIsRoundedSum ==
    (Called /\ AllDated) =>
        /\ ret.t = "float" /\ ret.d = 10
        /\ 10 * SumWorked(arg.v) - 12 * ret.v \in -6..6
        /\ arg = SixYears => ret = PyFloat(60, 10)

\* the six years of the example
C17_Witness ==
    /\ Called
    /\ arg = SixYears
    /\ ret = PyFloat(60, 10)

\* the entries of the list that are dated, in their order
DatedOf(entries) ==
    LET IsDated(entry) == entry \in DatedEntries
    IN SelectSeq(entries, IsDated)

-----------------------------------------------------------------------------
(* Claims about the handlers on the event loop, checked under SpecLoop *)

\* the upload of task t is inside _extract_text or inside the structurer
InsideParse(t) == tasks[t].pc \in {"extract", "structure"}

\* C23: while an upload is inside extraction or structuring, the event loop
\* is free, so that the handler of any other request can run and complete
C23_LoopFreeWhileParsing ==
    \A t \in Tasks : InsideParse(t) => LoopFree

\* C24: the model call of an upload is given up when OPENAI_TIMEOUT seconds
\* have passed; no upload is found waiting for the model longer than that
C24_ModelCallBounded ==
    \A t \in Tasks : tasks[t].pc = "structure" => tasks[t].waited <= OPENAI_TIMEOUT

\* C27: every record of the store has the identifier it is stored under and
\* the status completed; the status of an identifier of the store is answered
\* 200 with status completed and progress 100, never with status processing
C27_StoredAreCompleted ==
    /\ \A k \in DOMAIN resumes_db :
          resumes_db[k].id = k /\ resumes_db[k].status = "completed"
    /\ (resp.op = "status" /\ resp.id \in DOMAIN resumes_db) =>
          /\ resp.code = 200
          /\ resp.body.v["status"] = Chunk("completed")
          /\ resp.body.v["progress"].v = 100
    /\ (resp.op = "status" /\ resp.code = 200) =>
          resp.body.v["status"] # Chunk("processing")

\* the status of a record was asked for after an update had replaced its
\* contact_info
C27_Witness ==
    /\ resp.op = "status" /\ resp.code = 200
    /\ resp.id \in DOMAIN resumes_db
    /\ IsStr(resumes_db[resp.id].data.v["contact_info"])

\* C28: an update answered 200 leaves the store's keys, the other records
\* and the record's id and status as they were, and the data's top-level
\* keys the same; a key the body has not keeps its value; a dict sent for a
\* key that holds a dict is merged into it, its other sub-keys kept; any
\* other value sent for a key of the data replaces the value
C28_UpdateTouchesOwnKeysOnly ==
    [][(resp'.op = "update" /\ resp'.code = 200
        /\ <<resp, resumes_db, lastReq>>' # <<resp, resumes_db, lastReq>>) =>
         LET id == resp'.id
             body == UpdateInputs[lastReq'.k].v
             old == resumes_db[id].data.v
             new == resumes_db'[id].data.v
         IN /\ id \in DOMAIN resumes_db
            /\ DOMAIN resumes_db' = DOMAIN resumes_db
            /\ \A other \in DOMAIN resumes_db \ {id} :
                  resumes_db'[other] = resumes_db[other]
            /\ resumes_db'[id].id = resumes_db[id].id
            /\ resumes_db'[id].status = resumes_db[id].status
            /\ DOMAIN new = DOMAIN old
            /\ \A key \in DOMAIN old :
                  IF key \notin DOMAIN body THEN new[key] = old[key]
                  ELSE IF IsDict(old[key]) /\ IsDict(body[key])
                  THEN /\ IsDict(new[key])
                       /\ DOMAIN new[key].v = DOMAIN old[key].v \cup DOMAIN body[key].v
                       /\ \A sub \in DOMAIN new[key].v :
                             new[key].v[sub] = IF sub \in DOMAIN body[key].v
                                               THEN body[key].v[sub]
                                               ELSE old[key].v[sub]
                  ELSE new[key] = body[key]]_vars

\* a dict was merged into the contact_info of a record while the store held
\* another record: the email is the one sent, the phone the one stored
C28_Witness ==
    /\ resp.op = "update" /\ resp.code = 200 /\ lastReq.k = 1
    /\ resp.id \in DOMAIN resumes_db
    /\ Cardinality(DOMAIN resumes_db) > 1
    /\ "github" \in DOMAIN resumes_db[resp.id].data.v["contact_info"].v
    /\ "phone" \in DOMAIN resumes_db[resp.id].data.v["contact_info"].v

\* C30: whatever the order in which uploads, gets, updates, deletes and
\* status requests take their steps, no handler is suspended between its
\* check of the key and its access, and none is answered with a KeyError; a
\* get answered 200 shows a whole record, all fields of the schema and the
\* id; and a delete is answered 204 only in the step that removes a key the
\* store held, so that of two deletes of one identifier one removes it
C30_CheckThenAccessIsAtomic ==
    /\ [](/\ \A t \in Tasks : tasks[t].pc # "checked"
          /\ resp.code = 500 => resp.body # ErrorBody(HandlerCatch(
                                     Exception("KeyError", <<"KeyError">>)))
          /\ (resp.op = "get" /\ resp.code = 200) =>
                DOMAIN resp.body.v = ResumeFields \cup {"id"}
          /\ \A k \in DOMAIN resumes_db :
                DOMAIN resumes_db[k].data.v = ResumeFields)
    /\ [][(resp'.op = "delete" /\ resp' # resp) =>
            (resp'.code = 204) = (/\ resp'.id \in DOMAIN resumes_db
                                  /\ resp'.id \notin DOMAIN resumes_db')]_vars

\* an identifier was deleted and a second delete of it found it gone, while
\* an upload was suspended at file.read()
C30_Witness ==
    /\ resp.op = "delete" /\ resp.code = 500
    /\ resp.id \in deleted
    /\ \E t \in Tasks : tasks[t].pc = "read"

-----------------------------------------------------------------------------
(* Claims about the match scorer, checked under SpecMatch *)

\* the MatchResult of the last response
MatchingResults == resp.body.v["matchingResults"].v

\* C25: a match on a stored profile answers 200 with an overallScore within
\* 0..100 and a confidence within 0..1; a match on an identifier that is not
\* in the store answers 404 and no score
C25_ScoreInRangeOr404 ==
    resp.op = "match" =>
        IF resp.id \in DOMAIN resumes_db
        THEN /\ resp.code = 200
             /\ MatchingResults["overallScore"].v \in 0..100
             /\ MatchingResults["confidence"].v \in 0..MatchingResults["confidence"].d
             /\ MatchingResults["confidence"].d > 0
        ELSE /\ resp.code = 404
             /\ "matchingResults" \notin DOMAIN resp.body.v

\* a stored profile was matched and scored neither 0 nor 100
C25_Witness ==
    /\ resp.op = "match"
    /\ resp.id \in DOMAIN resumes_db
    /\ resp.code = 200
    /\ MatchingResults["overallScore"].v \in 1..99

-----------------------------------------------------------------------------
(* Claims about the extension guard and the dispatch, checked under
   SpecGuard *)

\* C29: a filename that validate_file_extension lets pass is dispatched by
\* _extract_text, after sanitize_filename, to the pdf, docx, txt or image
\* branch: the error "Unsupported file format" is not raised for it
C29_GuardAndDispatchAgree ==
    ret.t = "dispatched" => "Unsupported file format" \notin Range(ret.v.msg)

\* a name that sanitize_filename changes and whose extension is in upper
\* case has passed the guard and its text has been read
C29_Witness ==
    /\ ret.t = "dispatched"
    /\ sanitize_filename(arg) # arg
    /\ LastDotPart(arg) # Slice(arg, RFind(arg, ".") + 1, Len(arg))
    /\ ret.v.outcome = "return"

=============================================================================
